---- MODULE Spec2Model ----
(***************************************************************************)
(* Model of the Kubernetes optimization core of servo                      *)
(* (src/servo/connectors/kubernetes.py): the orchestrator                  *)
(* KubernetesOptimizations.apply, the two optimization strategies          *)
(* (DeploymentOptimization, CanaryOptimization), their failure handlers    *)
(* and the rollout observers of Deployment and Rollout.                    *)
(*                                                                         *)
(* One behaviour is one KubernetesConnector.adjust call: Init is the state *)
(* right after KubernetesOptimizations.create, then the adjustments are    *)
(* distributed, every optimization's apply() runs as its own task, and the *)
(* exceptional results are funnelled through handle_error.                 *)
(***************************************************************************)
EXTENDS Integers, Sequences, FiniteSets, TLC

\* ---------------------------------------------------------------- bounds
NumOpts == 2          \* number of configured controllers (one optimization each)
MaxAdjustments == 2   \* adjustments in one apply(adjustments) call
MaxValue == 2         \* resource values / replica counts range over 1..MaxValue
MaxConds == 1         \* length of a status.conditions list in a watch event
MaxRolloutConds == 2  \* length of an Argo Rollout's status.conditions list
MaxPods == 2          \* pods listed for a controller by get_pods()
MaxRestarts == 1      \* restart count of one pod

Min(S) == CHOOSE x \in S : \A y \in S : x <= y
Opts == 1..NumOpts
Values == 1..MaxValue
Baseline == Min(Values)  \* the value every controller template carries at create()

\* ------------------------------------------------------- program constants
FailureMode == {"rollback", "destroy", "ignore", "crash"}
Resources == {"cpu", "memory"}
Settings == {"cpu", "memory", "replicas", "other"}

\* Component names.  Optimization i is named i (DeploymentOptimization:
\* "<deployment>/<container>", CanaryOptimization: "<deployment>/<container>-canary");
\* the pinned target component that a canary reports besides itself is
\* NumOpts + i; 0 is a name no component has.
OptName(i) == i
TargetName(i) == NumOpts + i
ComponentNames == 0..(2 * NumOpts)

\* ------------------------------------------------------------- exceptions
\* An exception object: its class, the reason it carries (AdjustmentRejectedError)
\* and where it was raised (the optimization whose apply raised it, 0 for the
\* orchestrator's own wait_for, -1 for one raised inside a recovery action).
Err(cls, reason, src) == [cls |-> cls, reason |-> reason, src |-> src]
NoErr == Err("None", "", 0)
Pending == Err("Pending", "", 0)
Cancelled == Err("CancelledError", "", 0)
IsException(r) == r.cls \notin {"None", "Pending", "CancelledError"}
IsAsyncioTimeout(r) == r.cls = "asyncio.TimeoutError"

None == -1            \* Python's None where a number is expected

ReasonTimedOutDeployment == "timed out waiting for Deployment to apply adjustment"

VARIABLES
    on_failure,   \* config.on_failure
    strategy,     \* strategy[i]: "default" (DeploymentOptimization) or "canary"
    ctlKind,      \* ctlKind[i]: "Deployment" or "Rollout"
    ctrl,         \* ctrl[i]: the controller object in the cluster
    ctrlOps,      \* ctrlOps[i]: cluster operations issued against controller i
    loc,          \* loc[i]: the optimization's local controller wrapper (deployment / target_deployment)
    pod,          \* pod[i]: the canary pod "<controller>-canary" in the cluster
    can,          \* can[i]: canary_container resources of the local canary_pod wrapper
    pc,           \* position of KubernetesOptimizations.apply
    nAdj,         \* adjustments distributed so far
    lastAdj,      \* the adjustment the distribution loop processed last
    ignoredAdj,   \* adjustments dropped with "ignoring unrecognized adjustment"
    warnings,     \* "ignored attempt to set replicas" warnings logged by canaries
    restartCount, \* restartCount[i]: what get_restart_count() returned to apply (None: not called)
    timedOut,     \* timedOut[i]: the rollout observer of optimization i ran out of time
    apc,          \* apc[i]: position of optimization i's apply() task
    results,      \* results[i]: what gather returned for optimization i
    hr,           \* index of the result being handled
    hj,           \* index of the optimization whose handle_error is running
    hphase,       \* "results": the loop over results; "timeout": the except-branch loop
    hpc,          \* position inside the running handle_error
    herr,         \* the error passed to the running handle_error
    hrec,         \* the running handle_error call: rollback() and destroy() calls made,
                  \* the recovery steps in order, what the recovery raised, what the call raised
    heCalls,      \* finished handle_error calls of this apply, in order
    raisedErr,    \* what apply raised (NoErr while running or after a normal return)
    rd,           \* KubernetesConnector.adjust after apply: the settlement window and
                  \* the is_ready() checks made in it
    cy,           \* one DeploymentOptimization over several adjust()/apply() cycles
    sc,           \* one call of Deployment.inject_sidecar
    cr,           \* one call of KubernetesOptimizations.create
    wt,           \* one call of wait_for_condition
    pf,           \* one call of a function of the value and configuration classes,
                  \* or one apply() task timed against the orchestrator's wait
    ro            \* one scope of Deployment.rollout observing its watch

vars == <<on_failure, strategy, ctlKind, ctrl, ctrlOps, loc, pod, can,
          pc, nAdj, lastAdj, ignoredAdj, warnings, restartCount, timedOut, apc,
          results, hr, hj, hphase, hpc, herr, hrec, heCalls, raisedErr, rd,
          cy, sc, cr, wt, pf, ro>>

configVars == <<on_failure, strategy, ctlKind>>
clusterVars == <<ctrl, ctrlOps, pod>>
localVars == <<loc, can>>
adjustVars == <<nAdj, lastAdj, ignoredAdj, warnings>>
taskVars == <<restartCount, timedOut, apc, results>>
handlerVars == <<hr, hj, hphase, hpc, herr, hrec, heCalls>>
applyVars == <<clusterVars, localVars, pc, adjustVars, taskVars, handlerVars, raisedErr>>
libVars == <<rd, cy, sc, cr, wt, pf, ro>>


\* ------------------------------------------------------------------ Init
\* State right after KubernetesOptimizations.create: every controller was read
\* from the cluster, every canary optimization has its canary pod
\* (ensure_canary_pod) and the wrappers hold what the cluster holds.
TemplateSpec == [res |-> [r \in Resources |-> Baseline], replicas |-> Baseline]
NoAdjustment == [comp |-> -1, setting |-> "", value |-> 0]
Idle == [pc |-> "idle"]
NoCall == [rb |-> 0, ds |-> 0, log |-> <<>>, handler_error |-> NoErr, raised |-> NoErr]

\* config.deployments + config.rollouts: Deployments come before Rollouts
ControllerOrders ==
    {k \in [Opts -> {"Deployment", "Rollout"}] :
        \A i, j \in Opts : (i < j /\ k[i] = "Rollout") => k[j] = "Rollout"}

Init ==
    /\ on_failure \in FailureMode
    /\ strategy \in [Opts -> {"default", "canary"}]
    /\ ctlKind \in ControllerOrders
    /\ ctrl = [i \in Opts |-> [exists |-> TRUE, spec |-> TemplateSpec]]
    /\ ctrlOps = [i \in Opts |-> {}]
    /\ loc = [i \in Opts |-> TemplateSpec]
    /\ pod = [i \in Opts |-> [exists |-> strategy[i] = "canary", res |-> TemplateSpec.res]]
    /\ can = [i \in Opts |-> TemplateSpec.res]
    /\ pc = "adjusting"
    /\ nAdj = 0
    /\ lastAdj = NoAdjustment
    /\ ignoredAdj = 0
    /\ warnings = 0
    /\ restartCount = [i \in Opts |-> None]
    /\ timedOut = [i \in Opts |-> FALSE]
    /\ apc = [i \in Opts |-> "idle"]
    /\ results = [i \in Opts |-> Pending]
    /\ hr = 0
    /\ hj = 0
    /\ hphase = "none"
    /\ hpc = "idle"
    /\ herr = NoErr
    /\ hrec = NoCall
    /\ heCalls = <<>>
    /\ raisedErr = NoErr
    /\ rd = Idle
    /\ cy = Idle
    /\ sc = Idle
    /\ cr = Idle
    /\ wt = Idle
    /\ pf = Idle
    /\ ro = Idle

\* --------------------------------------------------- distributing adjustments
\* KubernetesOptimizations.find_optimization: the first optimization whose name
\* is `name`, 0 (None) when there is none.
find_optimization_or_first(name) ==
    IF \E i \in Opts : OptName(i) = name
    THEN Min({i \in Opts : OptName(i) = name})
    ELSE 1

find_optimization(name) ==
    IF \E i \in Opts : OptName(i) = name
    THEN Min({i \in Opts : OptName(i) = name})
    ELSE 0

\* DeploymentOptimization.adjust: writes the container's resource requirement
\* or controller.replicas of the local wrapper; "ok" or the error it raises.
DeploymentAdjustLoc(i, setting, value) ==
    IF setting \in Resources
    THEN [loc EXCEPT ![i].res[setting] = value]
    ELSE IF setting = "replicas"
    THEN [loc EXCEPT ![i].replicas = value]
    ELSE loc

DeploymentAdjustError(i, setting) ==
    IF setting \in Resources \cup {"replicas"} THEN NoErr ELSE Err("RuntimeError", "", i)

\* CanaryOptimization.adjust: writes the canary container's resource
\* requirement; replicas is only compared with 1.
CanaryAdjustCan(i, setting, value) ==
    IF setting \in Resources THEN [can EXCEPT ![i][setting] = value] ELSE can

CanaryAdjustWarns(setting, value) ==
    IF setting = "replicas" /\ value # 1 THEN 1 ELSE 0

CanaryRejectsReplicas(i, setting) ==
    IF setting \in Resources THEN NoErr ELSE Err("AdjustmentFailure", "", i)

CanaryAdjustError(i, setting) ==
    IF setting \in Resources \cup {"replicas"} THEN NoErr ELSE Err("AdjustmentFailure", "", i)

\* One round of the loop `for adjustment in adjustments` of
\* KubernetesOptimizations.apply.
Adjust(comp, setting, value) ==
    /\ pc = "adjusting"
    /\ nAdj < MaxAdjustments
    /\ nAdj' = nAdj + 1
    /\ lastAdj' = [comp |-> comp, setting |-> setting, value |-> value]
    /\ LET i == find_optimization(comp) IN
        IF i = 0
        THEN /\ ignoredAdj' = ignoredAdj + 1
             /\ UNCHANGED <<loc, can, warnings, pc, raisedErr>>
        ELSE /\ ignoredAdj' = ignoredAdj
             /\ IF strategy[i] = "default"
                THEN /\ loc' = DeploymentAdjustLoc(i, setting, value)
                     /\ raisedErr' = DeploymentAdjustError(i, setting)
                     /\ UNCHANGED <<can, warnings>>
                ELSE /\ can' = CanaryAdjustCan(i, setting, value)
                     /\ warnings' = warnings + CanaryAdjustWarns(setting, value)
                     /\ raisedErr' = CanaryAdjustError(i, setting)
                     /\ UNCHANGED loc
             /\ pc' = IF raisedErr' = NoErr THEN "adjusting" ELSE "raised"
    /\ UNCHANGED <<libVars, configVars, clusterVars, taskVars, handlerVars>>

\* `if not adjustments: return`
ApplyNothing ==
    /\ pc = "adjusting"
    /\ nAdj = 0
    /\ pc' = "done"
    /\ UNCHANGED <<libVars, configVars, clusterVars, localVars, adjustVars, taskVars,
                   handlerVars, raisedErr>>

\* asyncio.gather(*map(apply, optimizations)): every optimization's apply()
\* task is started once the distribution loop has finished.
FirstStepAlwaysPatch(i) == "d_patch"

FirstStep(i) == IF strategy[i] = "default" THEN "d_patch" ELSE "c_delete"

\* A gather that starts apply() only on the optimizations an adjustment changed.
BeginFanOutAdjustedOnly ==
    /\ pc = "adjusting"
    /\ nAdj >= 1
    /\ pc' = "applying"
    /\ apc' = [i \in Opts |->
                 IF loc[i] = TemplateSpec /\ can[i] = TemplateSpec.res
                 THEN "idle" ELSE FirstStep(i)]
    /\ lastAdj' = NoAdjustment
    /\ UNCHANGED <<libVars, configVars, clusterVars, localVars, nAdj, ignoredAdj,
                   warnings, restartCount, timedOut, results, handlerVars, raisedErr>>

BeginFanOut ==
    /\ pc = "adjusting"
    /\ nAdj >= 1
    /\ pc' = "applying"
    /\ apc' = [i \in Opts |-> FirstStep(i)]
    /\ lastAdj' = NoAdjustment
    /\ UNCHANGED <<libVars, configVars, clusterVars, localVars, nAdj, ignoredAdj,
                   warnings, restartCount, timedOut, results, handlerVars, raisedErr>>


\* ------------------------------------------------------- rollout observers
\* What one round of an observer loop decides.
\* timed_out marks the raise that the observer's own time limit produces.
Continue == [kind |-> "continue", err |-> NoErr, timed_out |-> FALSE]
Success == [kind |-> "success", err |-> NoErr, timed_out |-> FALSE]
Raise(e) == [kind |-> "raise", err |-> e, timed_out |-> FALSE]
RaiseTimedOut(e) == [kind |-> "raise", err |-> e, timed_out |-> TRUE]

ConditionTypes == {"Available", "Progressing", "ReplicaFailure"}
ConditionStatuses == {"True", "False", "Unknown"}
Conditions == [type : ConditionTypes, status : ConditionStatuses]

SeqsUpTo(S, n) == UNION {[1..k -> S] : k \in 0..n}

\* Deployment._check_conditions: walks status.conditions in list order.  The two
\* failure branches build their error from condition.status.message and
\* condition.status.reason, attributes the status string does not have.
RECURSIVE CheckConditionsFrom(_, _)
CheckConditionsFrom(conds, k) ==
    IF k > Len(conds) THEN NoErr
    ELSE LET c == conds[k] IN
        IF c.type = "Available"
        THEN IF c.status = "True" THEN NoErr ELSE CheckConditionsFrom(conds, k + 1)
        ELSE IF c.type = "ReplicaFailure"
        THEN Err("AttributeError", "", 0)
        ELSE IF c.status \in {"True", "Unknown"} THEN NoErr
        ELSE Err("AttributeError", "", 0)

_check_conditions(conds) == CheckConditionsFrom(conds, 1)

\* Deployment._check_pod_conditions over what get_latest_pods returned:
\* "no_replicaset" when no owning replica set is found, else whether one of the
\* latest pods has a condition with reason Unschedulable.
LatestPods == {"schedulable", "unschedulable", "no_replicaset"}

_check_pod_conditions(pods) ==
    IF pods = "no_replicaset" THEN Err("ConnectorError", "", 0)
    ELSE IF pods = "unschedulable"
    THEN Err("AdjustmentRejectedError", "scheduling-failed", 0)
    ELSE NoErr

\* A watch event of Deployment.rollout: the event type and the status of the
\* Deployment it carries.  counts = <<replicas, available_replicas,
\* ready_replicas, updated_replicas>>.
ReplicaCounts == {None} \cup Values
WatchEvents ==
    [type : {"MODIFIED", "ERROR"},
     conditions : SeqsUpTo(Conditions, MaxConds),
     pods : LatestPods,
     observed_generation : {0, 1},
     unavailable_replicas : {None, 0, 1},
     counts : [1..4 -> ReplicaCounts]]

\* The loop body without the stale-generation test.
ObserveEventIgnoringGeneration(e, observed_generation, desired_replicas) ==
    IF e.type = "ERROR"
    THEN Raise(Err("AdjustmentRejectedError", "str(deployment)", 0))
    ELSE IF _check_conditions(e.conditions) # NoErr
    THEN Raise(_check_conditions(e.conditions))
    ELSE IF _check_pod_conditions(e.pods) # NoErr
    THEN Raise(_check_pod_conditions(e.pods))
    ELSE IF e.unavailable_replicas \notin {None, 0} THEN Continue
    ELSE IF \A k \in 1..4 : e.counts[k] = desired_replicas THEN Success
    ELSE Continue

\* The body of `async for event in stream` of Deployment.rollout, for the
\* baseline generation and the desired replica count captured before the yield.
ObserveEvent(e, observed_generation, desired_replicas) ==
    IF e.type = "ERROR"
    THEN Raise(Err("AdjustmentRejectedError", "str(deployment)", 0))
    ELSE IF _check_conditions(e.conditions) # NoErr
    THEN Raise(_check_conditions(e.conditions))
    ELSE IF _check_pod_conditions(e.pods) # NoErr
    THEN Raise(_check_pod_conditions(e.pods))
    ELSE IF e.observed_generation = observed_generation THEN Continue
    ELSE IF e.unavailable_replicas \notin {None, 0} THEN Continue
    ELSE IF \A k \in 1..4 : e.counts[k] = desired_replicas THEN Success
    ELSE Continue

\* What the loop body can decide, per desired replica count (baseline generation 0).
WatchOutcomes ==
    [d \in Values |-> {ObserveEvent(e, 0, d) : e \in WatchEvents}]

\* The status an Argo Rollout reports at one poll of Rollout.rollout.
RolloutConditionTypes == {"Available", "Progressing", "InvalidSpec"}
RolloutConditions ==
    [type : RolloutConditionTypes, exceeded_quota : BOOLEAN,
     last_update_time : 1..MaxRolloutConds]
RolloutPolls ==
    [conditions : SeqsUpTo(RolloutConditions, MaxRolloutConds),
     active_selector : {"A", "B"},
     preview_selector : {"B"},
     timed_out : BOOLEAN]

\* sorted(conditions, key=last_update_time): ascending and stable;
\* next(iter(...)) takes its first element.
FirstSorted(conds) ==
    LET least == Min({conds[k].last_update_time : k \in 1..Len(conds)})
        k0 == Min({k \in 1..Len(conds) : conds[k].last_update_time = least})
    IN conds[k0]

\* One round of the `while True` loop of Rollout.rollout.
ObservePoll(p) ==
    IF p.conditions = <<>> THEN Raise(Err("RuntimeError", "", 0))
    ELSE LET latest == FirstSorted(p.conditions) IN
        IF latest.type \notin {"Available", "Progressing"}
        THEN Raise(Err("TypeError", "", 0))
        ELSE IF p.active_selector = p.preview_selector THEN Success
        ELSE IF p.timed_out
        THEN RaiseTimedOut(Err("AdjustmentRejectedError", "unstable", 0))
        ELSE Continue

PollOutcomes == {ObservePoll(p) : p \in RolloutPolls}

\* Pod.get_restart_count / Deployment.get_restart_count: the pods get_pods
\* listed, each with the sum of its container restart counts or the API error
\* reading its status raises (404: the pod is gone; 500: any other).
PodStatuses == (0..MaxRestarts) \cup {404, 500}
PodLists == SeqsUpTo(PodStatuses, MaxPods)

RECURSIVE RestartCountFrom(_, _, _)
RestartCountFrom(pods, k, count) ==
    IF k > Len(pods) THEN [count |-> count, err |-> NoErr]
    ELSE IF pods[k] = 404 THEN RestartCountFrom(pods, k + 1, count)
    ELSE IF pods[k] = 500 THEN [count |-> None, err |-> Err("ApiException", "500", 0)]
    ELSE RestartCountFrom(pods, k + 1, count + pods[k])

get_restart_count(pods) == RestartCountFrom(pods, 1, 0)

RestartOutcomes == {get_restart_count(pods) : pods \in PodLists}

From(e, i) == Err(e.cls, e.reason, i)
From2(a, i) == IF a.err = NoErr THEN a ELSE [a EXCEPT !.err = From(a.err, i)]


\* ------------------------------------------------ DeploymentOptimization.apply
Finish(i, r) ==
    /\ results' = [results EXCEPT ![i] = r]
    /\ apc' = [apc EXCEPT ![i] = "end"]

Goto(i, step) ==
    /\ apc' = [apc EXCEPT ![i] = step]
    /\ UNCHANGED results

\* Deployment.patch / Rollout.patch: sends the local object; the controller in
\* the cluster takes its spec and the wrapper takes the object returned.
PatchedCtrl(i) == [ctrl EXCEPT ![i].spec = loc[i]]

\* Whether the patch changed the object, i.e. its resource_version moved.
PatchChanges(i) == ctrl[i].spec # loc[i]

\* `async with self.deployment.rollout(...) as deployment: await deployment.patch()`
\* up to the point where the observer starts to watch (Deployment) or poll (Rollout).
DirectPatch(i) ==
    /\ pc = "applying"
    /\ apc[i] = "d_patch"
    /\ \/ /\ ctrl' = PatchedCtrl(i)
          /\ ctrlOps' = [ctrlOps EXCEPT ![i] = @ \cup {"patch"}]
          /\ IF ctlKind[i] = "Deployment" /\ ~PatchChanges(i)
             THEN Goto(i, "d_restarts")
             ELSE Goto(i, "d_observe")
       \/ /\ Finish(i, Err("ApiException", "500", i))
          /\ UNCHANGED <<ctrl, ctrlOps>>
    /\ UNCHANGED <<libVars, configVars, pod, localVars, pc, adjustVars, restartCount, timedOut,
                   handlerVars, raisedErr>>

ObserverOutcomes(i) ==
    IF ctlKind[i] = "Deployment" THEN WatchOutcomes[loc[i].replicas] ELSE PollOutcomes

\* One watch event (Deployment.rollout) or one poll (Rollout.rollout).
DirectObserve(i) ==
    /\ pc = "applying"
    /\ apc[i] = "d_observe"
    /\ \E o \in ObserverOutcomes(i) :
          /\ timedOut' = [timedOut EXCEPT ![i] = o.timed_out]
          /\ CASE o.kind = "continue" -> UNCHANGED <<apc, results>>
               [] o.kind = "success" -> Goto(i, "d_restarts")
               [] o.kind = "raise" -> Finish(i, From(o.err, i))
    /\ UNCHANGED <<libVars, configVars, clusterVars, localVars, pc, adjustVars, restartCount,
                   handlerVars, raisedErr>>

\* The error Deployment.rollout raises after its watch stream has ended.
DeploymentExhaustedError ==
    Err("AdjustmentRejectedError", ReasonTimedOutDeployment, 0)

\* The watch stream of Deployment.rollout ends (timeout_seconds elapsed)
\* without a success event: the fall-through raise after the stream.
DeploymentWatchExhausted(i) ==
    /\ pc = "applying"
    /\ apc[i] = "d_observe"
    /\ ctlKind[i] = "Deployment"
    /\ Finish(i, From(DeploymentExhaustedError, i))
    /\ timedOut' = [timedOut EXCEPT ![i] = TRUE]
    /\ UNCHANGED <<libVars, configVars, clusterVars, localVars, pc, adjustVars, restartCount,
                   handlerVars, raisedErr>>

\* An API request made by the observer raises asyncio.TimeoutError: apply
\* catches it and raises AdjustmentRejectedError in its place.
DirectObserveTimeoutError(i) ==
    /\ pc = "applying"
    /\ apc[i] = "d_observe"
    /\ Finish(i, Err("AdjustmentRejectedError", ReasonTimedOutDeployment, i))
    /\ UNCHANGED <<libVars, configVars, clusterVars, localVars, pc, adjustVars, restartCount,
                   timedOut, handlerVars, raisedErr>>

RestartVerdictLenient(count, i) ==
    IF count > 1 THEN Err("AdjustmentRejectedError", "unstable", i) ELSE NoErr

\* What apply does with the restart count once the observer has returned.
RestartVerdict(count, i) ==
    IF count > 0 THEN Err("AdjustmentRejectedError", "unstable", i) ELSE NoErr

\* `if await self.deployment.get_restart_count() > 0: raise ...(reason="unstable")`
DirectRestartCheck(i) ==
    /\ pc = "applying"
    /\ apc[i] = "d_restarts"
    /\ \E o \in RestartOutcomes :
          IF o.err # NoErr
          THEN /\ Finish(i, From(o.err, i))
               /\ UNCHANGED restartCount
          ELSE /\ restartCount' = [restartCount EXCEPT ![i] = o.count]
               /\ Finish(i, RestartVerdict(o.count, i))
    /\ UNCHANGED <<libVars, configVars, clusterVars, localVars, pc, adjustVars, timedOut,
                   handlerVars, raisedErr>>

\* ---------------------------------------------------- CanaryOptimization.apply
\* delete_canary_pod that returns without waiting for the pod to be gone.
CanaryDeleteNoWait(i) ==
    /\ pc = "applying"
    /\ apc[i] = "c_delete"
    /\ Goto(i, "c_create")
    /\ UNCHANGED <<libVars, configVars, clusterVars, localVars, pc, adjustVars, restartCount,
                   timedOut, handlerVars, raisedErr>>

\* Deployment.delete_canary_pod(raise_if_not_found=False): read the pod, delete
\* it and wait until it is gone.  A 404 anywhere in it is swallowed.
CanaryDelete(i) ==
    /\ pc = "applying"
    /\ apc[i] = "c_delete"
    /\ \/ /\ pod' = [pod EXCEPT ![i].exists = FALSE]
          /\ Goto(i, "c_create")
       \/ /\ pod[i].exists
          /\ \E e \in {Err("TimeoutError", "", i), Err("ApiException", "500", i),
                       Err("asyncio.TimeoutError", "", i)} :
                Finish(i, e)
          /\ UNCHANGED pod
       \/ /\ ~pod[i].exists
          /\ \E e \in {Err("ApiException", "500", i), Err("asyncio.TimeoutError", "", i)} :
                Finish(i, e)
          /\ UNCHANGED pod
    /\ UNCHANGED <<libVars, configVars, ctrl, ctrlOps, localVars, pc, adjustVars, restartCount,
                   timedOut, handlerVars, raisedErr>>

\* self.canary_pod.create(): the pod is created from the local wrapper, which
\* carries the adjusted container.
CanaryCreate(i) ==
    /\ pc = "applying"
    /\ apc[i] = "c_create"
    /\ \/ /\ pod' = [pod EXCEPT ![i] = [exists |-> TRUE, res |-> can[i]]]
          /\ Goto(i, "c_wait")
       \/ /\ Finish(i, Err("ApiException", "500", i))
          /\ UNCHANGED pod
    /\ UNCHANGED <<libVars, configVars, ctrl, ctrlOps, localVars, pc, adjustVars, restartCount,
                   timedOut, handlerVars, raisedErr>>

\* What wait_until_ready(timeout) can raise: TimeoutError from
\* wait_for_condition, AdjustmentRejectedError from Pod.is_ready on an
\* Unschedulable condition, asyncio.TimeoutError from Pod.refresh.
WaitReadyErrors(i) ==
    {Err("TimeoutError", "", i), Err("AdjustmentRejectedError", "scheduling-failed", i),
     Err("asyncio.TimeoutError", "", i)}

\* self.canary_pod.wait_until_ready(timeout=600)
CanaryWaitReady(i) ==
    /\ pc = "applying"
    /\ apc[i] = "c_wait"
    /\ \/ Goto(i, "c_refresh")
       \/ \E e \in WaitReadyErrors(i) : Finish(i, e)
    /\ UNCHANGED <<libVars, configVars, clusterVars, localVars, pc, adjustVars, restartCount,
                   timedOut, handlerVars, raisedErr>>

\* self.canary_pod.refresh(); self.canary_pod.get_containers()
CanaryRefresh(i) ==
    /\ pc = "applying"
    /\ apc[i] = "c_refresh"
    /\ \/ Finish(i, NoErr)
       \/ \E e \in {Err("ApiException", "500", i), Err("asyncio.TimeoutError", "", i)} :
             Finish(i, e)
    /\ UNCHANGED <<libVars, configVars, clusterVars, localVars, pc, adjustVars, restartCount,
                   timedOut, handlerVars, raisedErr>>


\* ------------------------------------------- the orchestrator's error handling
\* The first exceptional result at or after index k (`isinstance(result,
\* Exception)`), 0 when there is none.
NextExceptional(k) ==
    IF \E r \in k..NumOpts : IsException(results[r])
    THEN Min({r \in k..NumOpts : IsException(results[r])})
    ELSE 0

\* Entering `await optimization.handle_error(error, self.config.on_failure)`.
StartCall(j, error) ==
    /\ hj' = j
    /\ herr' = error
    /\ hrec' = NoCall
    /\ hpc' = "call"

\* gather returned: the loop `for result in results` runs up to the first
\* exceptional result and calls handle_error on the first optimization, or
\* finds none and apply returns.
GatherDone ==
    /\ pc = "applying"
    /\ \A i \in Opts : apc[i] = "end"
    /\ hphase' = "results"
    /\ IF NextExceptional(1) = 0
       THEN /\ pc' = "done"
            /\ UNCHANGED <<hr, hj, herr, hrec, hpc>>
       ELSE /\ pc' = "handling"
            /\ hr' = NextExceptional(1)
            /\ StartCall(1, results[NextExceptional(1)])
    /\ UNCHANGED <<libVars, configVars, clusterVars, localVars, adjustVars, taskVars,
                   heCalls, raisedErr>>

\* asyncio.wait_for(gather, timeout + 60) expires first: the unfinished tasks
\* are cancelled and the except branch calls handle_error with the TimeoutError.
ApplyTimeout ==
    /\ pc = "applying"
    /\ \E i \in Opts : apc[i] # "end"
    /\ apc' = [i \in Opts |-> IF apc[i] = "end" THEN "end" ELSE "cancelled"]
    /\ pc' = "handling"
    /\ hphase' = "timeout"
    /\ hr' = 0
    /\ StartCall(1, Err("asyncio.TimeoutError", "", 0))
    /\ UNCHANGED <<libVars, configVars, clusterVars, localVars, adjustVars, restartCount,
                   timedOut, results, heCalls, raisedErr>>

BaseRecoveryDestroys(mode) ==
    IF mode \in {"rollback", "destroy"} THEN "destroy" ELSE "none"

\* BaseOptimization.handle_error: which recovery the mode selects ...
BaseRecovery(mode) ==
    CASE mode = "rollback" -> "rollback"
      [] mode = "destroy" -> "destroy"
      [] OTHER -> "none"

\* ... whether it returns True instead of raising ...
BaseReturnsTrue(mode) == mode = "ignore"

\* ... and what it raises: `raise error` on every path, also from the except
\* clause that catches a failure of the recovery (handler_error).
BaseRaises(error, handler_error) == error

\* DeploymentOptimization.rollback -> Deployment.rollback / Rollout.rollback:
\* what can come of it.  A Rollout always raises TypeError.
RollbackOutcomes(j) ==
    IF ctlKind[j] = "Rollout" THEN {Err("TypeError", "", -1)}
    ELSE IF ~ctrl[j].exists THEN {Err("ApiException", "404", -1)}
    ELSE {NoErr, Err("ApiException", "500", -1), Err("asyncio.TimeoutError", "", -1)}

\* DeploymentOptimization.destroy -> controller.delete()
DestroyOutcomes(j) ==
    IF ~ctrl[j].exists THEN {Err("ApiException", "404", -1)}
    ELSE {NoErr, Err("ApiException", "500", -1), Err("asyncio.TimeoutError", "", -1)}

\* CanaryOptimization.handle_error overrides the modes rollback and destroy.
CanaryHandles(mode) == mode \in {"rollback", "destroy"}

UsesBase(j) == strategy[j] = "default" \/ ~CanaryHandles(on_failure)

\* One call of BaseOptimization.handle_error(herr, on_failure) on optimization hj.
HandleErrorBase ==
    /\ pc = "handling"
    /\ hpc = "call"
    /\ UsesBase(hj)
    /\ LET rec == BaseRecovery(on_failure) IN
        \E o \in (IF rec = "rollback" THEN RollbackOutcomes(hj)
                  ELSE IF rec = "destroy" THEN DestroyOutcomes(hj)
                  ELSE {NoErr}) :
          /\ hrec' = [hrec EXCEPT
                !.rb = IF rec = "rollback" THEN @ + 1 ELSE @,
                !.ds = IF rec = "destroy" THEN @ + 1 ELSE @,
                !.log = IF rec = "none" THEN @ ELSE Append(@, rec),
                !.handler_error = o,
                !.raised = IF BaseReturnsTrue(on_failure) THEN NoErr
                           ELSE BaseRaises(herr, o)]
          /\ hpc' = IF BaseReturnsTrue(on_failure) THEN "ret_true" ELSE "ret_raise"
          /\ IF rec = "rollback" /\ o = NoErr
             THEN /\ ctrl' = [ctrl EXCEPT ![hj].spec = TemplateSpec]
                  /\ ctrlOps' = [ctrlOps EXCEPT ![hj] = @ \cup {"rollback"}]
                  /\ UNCHANGED loc
             ELSE IF rec = "destroy" /\ o = NoErr
             THEN /\ ctrl' = [ctrl EXCEPT ![hj].exists = FALSE]
                  /\ ctrlOps' = [ctrlOps EXCEPT ![hj] = @ \cup {"delete"}]
                  /\ UNCHANGED loc
             ELSE UNCHANGED <<ctrl, ctrlOps, loc>>
    /\ UNCHANGED <<libVars, configVars, pod, can, pc, adjustVars, taskVars, hr, hj, hphase,
                   herr, heCalls, raisedErr>>


\* ------------------------------------------- CanaryOptimization.handle_error
RaisesHandlerError(error, handler_error) == handler_error

\* What the except clause of CanaryOptimization.handle_error raises.
CanaryRaises(error, handler_error) == error

\* The recovery failed with handler_error: the call raises.
CanaryFails(handler_error) ==
    /\ hrec' = [hrec EXCEPT !.handler_error = handler_error,
                            !.raised = CanaryRaises(herr, handler_error)]
    /\ hpc' = "ret_raise"

\* destroy(): `await self.canary_pod.delete()`.  Deleting a pod that does not
\* exist answers 404, an ApiException.
CanaryDestroyDelete ==
    /\ pc = "handling"
    /\ hpc = "call"
    /\ ~UsesBase(hj)
    /\ \/ /\ pod[hj].exists
          /\ hrec' = [hrec EXCEPT !.ds = @ + 1, !.log = Append(@, "delete")]
          /\ hpc' = "he_wait"
       \/ /\ \E e \in (IF pod[hj].exists
                       THEN {Err("ApiException", "500", -1), Err("asyncio.TimeoutError", "", -1)}
                       ELSE {Err("ApiException", "404", -1)}) :
                /\ hrec' = [hrec EXCEPT !.ds = @ + 1, !.log = Append(@, "delete"),
                                        !.handler_error = e,
                                        !.raised = CanaryRaises(herr, e)]
                /\ hpc' = "ret_raise"
    /\ UNCHANGED <<libVars, configVars, clusterVars, localVars, pc, adjustVars, taskVars,
                   hr, hj, hphase, herr, heCalls, raisedErr>>

\* destroy(): `await self.canary_pod.wait_until_deleted()` under the
\* asyncio.wait_for(..., timeout) of handle_error.
CanaryDestroyWait ==
    /\ pc = "handling"
    /\ hpc = "he_wait"
    /\ \/ /\ pod' = [pod EXCEPT ![hj].exists = FALSE]
          /\ hrec' = [hrec EXCEPT !.log = Append(@, "deleted")]
          /\ hpc' = "he_ensure"
       \/ /\ \E e \in {Err("ApiException", "500", -1), Err("asyncio.TimeoutError", "", -1)} :
                CanaryFails(e)
          /\ UNCHANGED pod
    /\ UNCHANGED <<libVars, configVars, ctrl, ctrlOps, localVars, pc, adjustVars, taskVars,
                   hr, hj, hphase, herr, heCalls, raisedErr>>

CanaryFromAdjusted(j) == [exists |-> TRUE, res |-> can[j]]

\* The pod ensure_canary_pod builds: metadata and spec of the local target
\* controller's pod template.
CanaryFromTemplate(j) == [exists |-> TRUE, res |-> loc[j].res]

\* What handle_error does once ensure_canary_pod has returned: `return True`.
CanaryRecovered == "ret_true"

\* target_deployment.ensure_canary_pod(): an existing canary is returned as it
\* is; on 404 a pod is created from the template and waited for.
EnsureCanaryPod ==
    /\ pc = "handling"
    /\ hpc = "he_ensure"
    /\ \/ IF pod[hj].exists
          THEN /\ hrec' = [hrec EXCEPT !.log = Append(@, "found")]
               /\ hpc' = CanaryRecovered
               /\ UNCHANGED pod
          ELSE /\ pod' = [pod EXCEPT ![hj] = CanaryFromTemplate(hj)]
               /\ hrec' = [hrec EXCEPT !.log = Append(@, "create")]
               /\ hpc' = "he_ready"
       \/ /\ \E e \in {Err("ApiException", "500", -1), Err("asyncio.TimeoutError", "", -1)} :
                CanaryFails(e)
          /\ UNCHANGED pod
    /\ UNCHANGED <<libVars, configVars, ctrl, ctrlOps, localVars, pc, adjustVars, taskVars,
                   hr, hj, hphase, herr, heCalls, raisedErr>>

\* ensure_canary_pod: canary_pod.wait_until_ready(timeout), refresh, return;
\* then `self.canary = ...; return True` in handle_error.
EnsureCanaryReady ==
    /\ pc = "handling"
    /\ hpc = "he_ready"
    /\ \/ /\ hrec' = [hrec EXCEPT !.log = Append(@, "ready"),
                                  !.raised = IF CanaryRecovered = "ret_true" THEN NoErr
                                             ELSE herr]
          /\ hpc' = CanaryRecovered
       \/ \E e \in WaitReadyErrors(-1) : CanaryFails(e)
    /\ UNCHANGED <<libVars, configVars, clusterVars, localVars, pc, adjustVars, taskVars,
                   hr, hj, hphase, herr, heCalls, raisedErr>>

\* ------------------------------------------------- after handle_error returns
NextOptimizationNoBreak(returned, j) == IF j < NumOpts THEN j + 1 ELSE 0

\* `if await optimization.handle_error(...): break`: the optimization the
\* inner loop calls next, 0 when the loop is over.
NextOptimization(returned, j) ==
    IF returned THEN 0
    ELSE IF j < NumOpts THEN j + 1
    ELSE 0

CallRecord == [r |-> hr, j |-> hj, phase |-> hphase, returned |-> hpc = "ret_true"]

\* handle_error returned True (or, were it ever to, a falsy value).
HandlerReturned ==
    /\ pc = "handling"
    /\ hpc = "ret_true"
    /\ heCalls' = Append(heCalls, CallRecord)
    /\ LET j == NextOptimization(TRUE, hj) IN
        IF j # 0
        THEN /\ StartCall(j, herr)
             /\ UNCHANGED <<pc, hr>>
        ELSE IF hphase = "results" /\ NextExceptional(hr + 1) # 0
        THEN /\ hr' = NextExceptional(hr + 1)
             /\ StartCall(1, results[NextExceptional(hr + 1)])
             /\ UNCHANGED pc
        ELSE /\ pc' = "done"
             /\ hpc' = "idle"
             /\ UNCHANGED <<hr, hj, herr, hrec>>
    /\ UNCHANGED <<libVars, configVars, clusterVars, localVars, adjustVars, taskVars,
                   hphase, raisedErr>>

\* handle_error raised inside the try block: an asyncio TimeoutError is caught
\* by `except asyncio.exceptions.TimeoutError` and handled again in the except
\* branch; anything else leaves apply.
HandlerRaisedInTry ==
    /\ pc = "handling"
    /\ hpc = "ret_raise"
    /\ hphase = "results"
    /\ heCalls' = Append(heCalls, CallRecord)
    /\ IF IsAsyncioTimeout(hrec.raised)
       THEN /\ hphase' = "timeout"
            /\ StartCall(1, hrec.raised)
            /\ UNCHANGED <<pc, raisedErr>>
       ELSE /\ pc' = "raised"
            /\ raisedErr' = hrec.raised
            /\ hpc' = "idle"
            /\ UNCHANGED <<hphase, hj, herr, hrec>>
    /\ UNCHANGED <<libVars, configVars, clusterVars, localVars, adjustVars, taskVars, hr>>

\* handle_error raised inside the except branch: the error leaves apply.
HandlerRaisedInExcept ==
    /\ pc = "handling"
    /\ hpc = "ret_raise"
    /\ hphase = "timeout"
    /\ heCalls' = Append(heCalls, CallRecord)
    /\ pc' = "raised"
    /\ raisedErr' = hrec.raised
    /\ hpc' = "idle"
    /\ UNCHANGED <<libVars, configVars, clusterVars, localVars, adjustVars, taskVars,
                   hr, hj, hphase, herr, hrec>>

\* ------------------------------------------------------------- reporting
\* CanaryOptimization.replicas: a constant setting.
CanaryReplicas(i) == [min |-> 0, max |-> 1, value |-> 1, pinned |-> TRUE]

\* CanaryOptimization.to_components: the pinned target component, read from
\* the target wrapper, and the canary component, read from the canary wrapper.
CanaryComponents(i) ==
    <<[name |-> TargetName(i),
       cpu |-> [value |-> loc[i].res["cpu"], pinned |-> TRUE],
       memory |-> [value |-> loc[i].res["memory"], pinned |-> TRUE],
       replicas |-> [value |-> loc[i].replicas, pinned |-> TRUE]],
      [name |-> OptName(i),
       cpu |-> [value |-> can[i]["cpu"], pinned |-> FALSE],
       memory |-> [value |-> can[i]["memory"], pinned |-> FALSE],
       replicas |-> [value |-> CanaryReplicas(i).value,
                     pinned |-> CanaryReplicas(i).pinned]]>>

\* ---------------------------------------------------------------- claims
AtReturn == pc = "handling" /\ hpc \in {"ret_true", "ret_raise"}
IsPrefix(s, t) == Len(s) <= Len(t) /\ \A k \in 1..Len(s) : s[k] = t[k]

\* C1: the base handle_error of a DeploymentOptimization returns True only in
\* mode ignore; in mode crash it raises the error it was given without calling
\* rollback() or destroy(); in mode rollback it calls rollback() exactly once,
\* in mode destroy destroy() exactly once, and then raises that same error.
C1_BaseHandleError ==
    (AtReturn /\ strategy[hj] = "default") =>
        /\ (hpc = "ret_true") <=> (on_failure = "ignore")
        /\ on_failure = "crash" =>
              hrec.rb = 0 /\ hrec.ds = 0 /\ hrec.raised = herr
        /\ on_failure = "rollback" =>
              hrec.rb = 1 /\ hrec.ds = 0 /\ hrec.raised = herr
        /\ on_failure = "destroy" =>
              hrec.ds = 1 /\ hrec.rb = 0 /\ hrec.raised = herr

C1_Witness ==
    /\ AtReturn /\ strategy[hj] = "default"
    /\ on_failure = "rollback" /\ hrec.rb = 1 /\ hrec.raised = herr

\* C2: in the modes rollback and destroy, for both strategies, a recovery that
\* itself fails makes handle_error raise the error it was given, not the
\* recovery's failure, and never return.
C2_RecoveryFailureKeepsOriginal ==
    (AtReturn /\ on_failure \in {"rollback", "destroy"} /\ hrec.handler_error # NoErr) =>
        /\ hpc = "ret_raise"
        /\ hrec.raised = herr
        /\ hrec.raised # hrec.handler_error

C2_Witness ==
    /\ AtReturn /\ strategy[hj] = "canary" /\ on_failure = "destroy"
    /\ hrec.handler_error # NoErr /\ hrec.raised = herr

\* C3: a CanaryOptimization's handle_error in mode rollback or destroy whose
\* recovery succeeds still raises the error it was given: it does not return
\* as if the failure had been handled.
C3_CanaryPropagatesOriginal ==
    (AtReturn /\ strategy[hj] = "canary" /\ on_failure \in {"rollback", "destroy"}
        /\ hrec.handler_error = NoErr) =>
            hpc = "ret_raise" /\ hrec.raised = herr

\* C4: CanaryOptimization.handle_error in the modes rollback and destroy never
\* calls rollback(); it deletes the canary pod, waits until it is gone and then
\* runs ensure_canary_pod, in this order; after a successful recovery a canary
\* pod exists whose resources are those of the target controller's pod template.
RecoverySteps == <<"delete", "deleted", "create", "ready">>

C4_CanaryRecovery ==
    (pc = "handling" /\ hpc # "idle" /\ ~UsesBase(hj)) =>
        /\ hrec.rb = 0
        /\ IsPrefix(hrec.log, RecoverySteps)
        /\ hpc = "ret_true" =>
              /\ hrec.log = RecoverySteps
              /\ pod[hj].exists
              /\ pod[hj].res = ctrl[hj].spec.res
              /\ pod[hj].res = TemplateSpec.res

C4_Witness ==
    /\ pc = "handling" /\ hpc = "ret_true" /\ ~UsesBase(hj)
    /\ on_failure = "rollback"
    /\ can[hj] # TemplateSpec.res
    /\ pod[hj].exists /\ pod[hj].res = TemplateSpec.res

\* C5: for an exceptional result of the fan-out, handle_error is called on the
\* optimizations in list order, starting with the first, and no optimization
\* is called for a result after one whose handle_error returned True for it.
AllCalls ==
    IF pc = "handling"
    THEN Append(heCalls, [r |-> hr, j |-> hj, phase |-> hphase, returned |-> FALSE])
    ELSE heCalls

C5_HandleErrorOrder ==
    \A k \in 1..Len(AllCalls) :
        LET c == AllCalls[k] IN
        /\ c.phase = "results" => IsException(results[c.r])
        /\ IF k > 1 /\ AllCalls[k - 1].r = c.r /\ AllCalls[k - 1].phase = c.phase
           THEN ~AllCalls[k - 1].returned /\ c.j = AllCalls[k - 1].j + 1
           ELSE c.j = 1

C5_Witness ==
    /\ Len(heCalls) >= 2
    /\ heCalls[1].returned /\ heCalls[1].j = 1 /\ heCalls[1].phase = "results"
    /\ heCalls[2].phase = "results" /\ heCalls[2].r > heCalls[1].r

\* C6: an adjustment whose component name is no optimization's name raises
\* nothing and reaches no optimization (no wrapper changes); the loop goes on,
\* and an adjustment after it is still recorded in its optimization's wrapper.
Distributes == pc = "adjusting" /\ nAdj' = nAdj + 1

C6_UnknownComponentIgnored ==
    [][Distributes =>
        /\ (\A i \in Opts : OptName(i) # lastAdj'.comp) =>
              /\ loc' = loc /\ can' = can /\ warnings' = warnings
              /\ raisedErr' = NoErr /\ pc' = "adjusting"
              /\ ignoredAdj' = ignoredAdj + 1
        /\ \A i \in Opts :
              (ignoredAdj >= 1 /\ OptName(i) = lastAdj'.comp
                  /\ lastAdj'.setting \in Resources) =>
                      IF strategy[i] = "default"
                      THEN loc'[i].res[lastAdj'.setting] = lastAdj'.value
                      ELSE can'[i][lastAdj'.setting] = lastAdj'.value]_vars

C6_Witness ==
    /\ pc = "done" /\ ignoredAdj >= 1
    /\ \E i \in Opts :
          /\ strategy[i] = "default"
          /\ "patch" \in ctrlOps[i]
          /\ ctrl[i].spec # TemplateSpec
          /\ ctrl[i].spec = loc[i]

\* C7: whatever a CanaryOptimization does (adjust, apply, handle_error,
\* destroy), its target controller is never patched, rolled back or deleted
\* and neither the controller nor its local wrapper changes; an adjustment
\* addressed to the pinned target component changes nothing at all.
C7_TargetNeverMutated ==
    [][\A i \in Opts : strategy[i] = "canary" =>
        /\ ctrl'[i] = ctrl[i] /\ ctrlOps'[i] = {} /\ loc'[i] = loc[i]
        /\ (Distributes /\ lastAdj'.comp = TargetName(i)) =>
              /\ loc' = loc /\ can' = can /\ ctrl' = ctrl /\ pod' = pod
              /\ raisedErr' = NoErr]_vars

C7_Witness ==
    \E i \in Opts :
        /\ strategy[i] = "canary"
        /\ pc = "handling" /\ hj = i /\ hrec.ds >= 1
        /\ results[i] # NoErr /\ can[i] # TemplateSpec.res
        /\ ctrl[i].spec = TemplateSpec /\ ctrlOps[i] = {}

\* C8: the replicas setting a CanaryOptimization reports has value 1 and is
\* pinned, whatever was adjusted; adjust(replicas = n) with n # 1 raises
\* nothing, logs a warning and changes no state.
ReportsOneReplica(i) ==
    /\ CanaryComponents(i)[2].name = OptName(i)
    /\ CanaryComponents(i)[2].replicas.value = 1
    /\ CanaryComponents(i)[2].replicas.pinned

C8_CanaryReplicasPinned ==
    [][\A i \in Opts : strategy[i] = "canary" =>
        /\ ReportsOneReplica(i)'
        /\ (Distributes /\ lastAdj'.comp = OptName(i) /\ lastAdj'.setting = "replicas"
               /\ lastAdj'.value # 1) =>
              /\ raisedErr' = NoErr /\ pc' = "adjusting"
              /\ warnings' = warnings + 1
              /\ loc' = loc /\ can' = can
              /\ ctrl' = ctrl /\ pod' = pod]_vars

C8_Witness ==
    /\ warnings >= 1
    /\ lastAdj.setting = "replicas" /\ lastAdj.value # 1
    /\ \E i \in Opts : strategy[i] = "canary" /\ lastAdj.comp = OptName(i)

\* C9: once the rollout observer has returned and get_restart_count() has
\* answered, DeploymentOptimization.apply raises AdjustmentRejectedError with
\* reason "unstable" if the count is above 0 and returns normally if it is 0.
C9_RestartsDecide ==
    \A i \in Opts :
        (strategy[i] = "default" /\ apc[i] = "end" /\ restartCount[i] # None) =>
            IF restartCount[i] > 0
            THEN results[i] = Err("AdjustmentRejectedError", "unstable", i)
            ELSE results[i] = NoErr

C9_Witness ==
    \E i \in Opts :
        /\ strategy[i] = "default" /\ apc[i] = "end"
        /\ restartCount[i] > 1
        /\ results[i].reason = "unstable"

\* C10: when the rollout observer runs out of time (the Deployment's watch
\* stream ends without success, the Rollout's elapsed time passes the timeout
\* before the selectors agree), apply raises AdjustmentRejectedError with the
\* reason "timeout".
C10_TimeoutReason ==
    \A i \in Opts :
        (apc[i] = "end" /\ timedOut[i]) =>
            /\ results[i].cls = "AdjustmentRejectedError"
            /\ results[i].reason = "timeout"

\* ------------------------------------------------------------------ Next
Next ==
    \/ \E c \in ComponentNames, s \in Settings, v \in Values : Adjust(c, s, v)
    \/ ApplyNothing
    \/ BeginFanOut
    \/ \E i \in Opts : DirectPatch(i)
    \/ \E i \in Opts : DirectObserve(i)
    \/ \E i \in Opts : DeploymentWatchExhausted(i)
    \/ \E i \in Opts : DirectObserveTimeoutError(i)
    \/ \E i \in Opts : DirectRestartCheck(i)
    \/ \E i \in Opts : CanaryDelete(i)
    \/ \E i \in Opts : CanaryCreate(i)
    \/ \E i \in Opts : CanaryWaitReady(i)
    \/ \E i \in Opts : CanaryRefresh(i)
    \/ GatherDone
    \/ ApplyTimeout
    \/ HandleErrorBase
    \/ CanaryDestroyDelete
    \/ CanaryDestroyWait
    \/ EnsureCanaryPod
    \/ EnsureCanaryReady
    \/ HandlerReturned
    \/ HandlerRaisedInTry
    \/ HandlerRaisedInExcept

Spec == Init /\ [][Next]_vars

\* ======================================================================
\* Readiness and settlement: KubernetesConnector.adjust after apply returned
\* ======================================================================
MaxSettlement == 1    \* settlement durations range over 0..MaxSettlement
MaxPolls == 2         \* is_ready() polls of the readiness monitor in one window

\* The apply-run variables once state.apply(adjustments) has returned.
ApplyAtRest ==
    /\ ctrl = [i \in Opts |-> [exists |-> TRUE, spec |-> TemplateSpec]]
    /\ ctrlOps = [i \in Opts |-> {}]
    /\ loc = [i \in Opts |-> TemplateSpec]
    /\ pod = [i \in Opts |-> [exists |-> strategy[i] = "canary", res |-> TemplateSpec.res]]
    /\ can = [i \in Opts |-> TemplateSpec.res]
    /\ pc = "done"
    /\ nAdj = 0
    /\ lastAdj = NoAdjustment
    /\ ignoredAdj = 0
    /\ warnings = 0
    /\ restartCount = [i \in Opts |-> None]
    /\ timedOut = [i \in Opts |-> FALSE]
    /\ apc = [i \in Opts |-> "idle"]
    /\ results = [i \in Opts |-> Pending]
    /\ hr = 0
    /\ hj = 0
    /\ hphase = "none"
    /\ hpc = "idle"
    /\ herr = NoErr
    /\ hrec = NoCall
    /\ heCalls = <<>>
    /\ raisedErr = NoErr

\* A value a call returned, or the exception it raised.
\* Python truth values are written "True", "False" and "None".
Bool(b) == IF b THEN "True" ELSE "False"
Truthy(v) == v = "True"
Returns(v) == [val |-> v, err |-> NoErr]
Raises(e) == [val |-> "None", err |-> e]
RaisesCount(e) == [val |-> None, err |-> e]

\* ControllerModel.is_ready / Deployment.is_ready on the status refresh() read.
ControllerStatuses ==
    [has_status : BOOLEAN, replicas : ReplicaCounts, ready_replicas : ReplicaCounts]

ControllerIsReady(status) ==
    IF ~status.has_status THEN "False"
    ELSE IF status.replicas = None THEN "False"
    ELSE Bool(status.replicas = status.ready_replicas)

\* Pod.is_ready on the status refresh() read: the conditions are walked in
\* list order; an Unschedulable reason raises, the first condition of type
\* Ready decides.
MaxPodConds == 2      \* length of a pod's status.conditions list
\* A status carries at most one condition of a type, in any order.
PodConditions ==
    [type : {"Ready"}, status : {"True", "False"}, reason : {""}]
    \cup { [type |-> "PodScheduled", status |-> "True", reason |-> ""],
           [type |-> "PodScheduled", status |-> "False", reason |-> "Unschedulable"] }
PodConditionLists ==
    { l \in SeqsUpTo(PodConditions, MaxPodConds) :
        \A j, k \in 1..Len(l) : j # k => l[j].type # l[k].type }

RECURSIVE PodIsReadyFrom(_, _)
PodIsReadyFrom(conds, k) ==
    IF k > Len(conds) THEN Returns("False")
    ELSE IF conds[k].reason = "Unschedulable"
    THEN Raises(Err("AdjustmentRejectedError", "scheduling-failed", 0))
    ELSE IF conds[k].type # "Ready" THEN PodIsReadyFrom(conds, k + 1)
    ELSE Returns(Bool(conds[k].status = "True"))

PodIsReady(conds) == IF conds = <<>> THEN Returns("False") ELSE PodIsReadyFrom(conds, 1)

\* What the is_ready() of an optimization's controller or canary pod can
\* answer: refresh() may raise before the status is looked at.
RefreshErrors == {Err("ApiException", "500", 0), Err("asyncio.TimeoutError", "", 0)}

ReadyAnswers(strat) ==
    (IF strat = "default"
     THEN {Returns(ControllerIsReady(st)) : st \in ControllerStatuses}
     ELSE {PodIsReady(conds) : conds \in PodConditionLists})
    \cup {Raises(e) : e \in RefreshErrors}

RestartAnswers ==
    {IF o.err = NoErr THEN Returns(o.count) ELSE RaisesCount(o.err) : o \in RestartOutcomes}

OptimizationIsReadyIgnoringRestarts(ready, restarts) ==
    IF ready.err # NoErr THEN Raises(ready.err)
    ELSE IF restarts.err # NoErr THEN Raises(restarts.err)
    ELSE Returns(Bool(Truthy(ready.val)))

\* DeploymentOptimization.is_ready / CanaryOptimization.is_ready:
\* gather(is_ready(), get_restart_count()), then `is_ready and restart_count == 0`.
OptimizationIsReady(ready, restarts) ==
    IF ready.err # NoErr THEN Raises(ready.err)
    ELSE IF restarts.err # NoErr THEN Raises(restarts.err)
    ELSE Returns(Bool(Truthy(ready.val) /\ restarts.val = 0))

ReadyAnswersBy == [st \in {"default", "canary"} |-> ReadyAnswers(st)]

\* What one round of is_ready() calls can observe, per strategy assignment.
ObservationTable ==
    [st \in [Opts -> {"default", "canary"}] |->
        {o \in [Opts -> [ready : ReadyAnswersBy["default"] \cup ReadyAnswersBy["canary"],
                         restarts : RestartAnswers]] :
            \A i \in Opts : o[i].ready \in ReadyAnswersBy[st[i]]}]

Observations == ObservationTable[strategy]

\* How a handle_error call on the first optimization can end.
HandleOutcomes ==
    IF strategy[1] = "canary" /\ CanaryHandles(on_failure) THEN {"true", "raise"}
    ELSE IF BaseReturnsTrue(on_failure) THEN {"true"}
    ELSE {"raise"}

\* The except branch of KubernetesOptimizations.is_ready: handle_error on the
\* first optimization; True breaks the loop and the method falls off its end.
ReadyAfterTimeout(error, h) ==
    IF h = "true" THEN Returns("None") ELSE Raises(error)

\* The loop `for result in results` of KubernetesOptimizations.is_ready from
\* index k on.  An exceptional result is raised (by the method when handle_error
\* returned True, by handle_error otherwise); an asyncio TimeoutError among
\* them is caught by the except branch.
RECURSIVE ReadyFrom(_, _, _)
ReadyFrom(res, k, h) ==
    IF k > NumOpts THEN Returns("True")
    ELSE IF res[k].err # NoErr
    THEN IF IsAsyncioTimeout(res[k].err)
         THEN ReadyAfterTimeout(res[k].err, h)
         ELSE Raises(res[k].err)
    ELSE IF ~Truthy(res[k].val) THEN Returns("False")
    ELSE ReadyFrom(res, k + 1, h)

\* KubernetesOptimizations.is_ready over one round of observations; expired:
\* the 60 s wait_for around the gather ran out.
OptimizationsIsReady(obs, expired, h) ==
    IF expired THEN ReadyAfterTimeout(Err("asyncio.TimeoutError", "", 0), h)
    ELSE ReadyFrom([i \in Opts |->
                      From2(OptimizationIsReady(obs[i].ready, obs[i].restarts), i)], 1, h)

ReasonUnreadyDuring ==
    "Optimization target became unready during adjustment settlement period"
ReasonUnreadyAfter ==
    "Optimization target became unready after adjustment settlement period"

\* `settlement = control.settlement or self.config.settlement`
TruthyDuration(d) == d \notin {None, 0}
Settlement(control, config) == IF TruthyDuration(control) THEN control ELSE config

SettlementInputs == {None} \cup (0..MaxSettlement)
NoCheck == [obs |-> <<>>, expired |-> FALSE, answer |-> Returns("None")]

InitReady ==
    /\ on_failure \in FailureMode
    /\ strategy \in [Opts -> {"default", "canary"}]
    /\ ctlKind = [i \in Opts |-> "Deployment"]
    /\ ApplyAtRest
    /\ \E c \in SettlementInputs, g \in SettlementInputs :
          rd = [pc |-> "start", control |-> c, config |-> g, finished |-> FALSE,
                polls |-> 0, allTrue |-> TRUE, last |-> NoCheck, err |-> NoErr]
    /\ cy = Idle
    /\ sc = Idle
    /\ cr = Idle
    /\ wt = Idle
    /\ pf = Idle
    /\ ro = Idle

\* `if settlement:` is false: the description is returned at once.
SettleSkip ==
    /\ rd.pc = "start"
    /\ ~TruthyDuration(Settlement(rd.control, rd.config))
    /\ rd' = [rd EXCEPT !.pc = "returned"]
    /\ UNCHANGED <<configVars, applyVars, cy, sc, cr, wt, pf, ro>>

\* The gather of progress.watch and readiness_monitor starts.
SettleBegin ==
    /\ rd.pc = "start"
    /\ TruthyDuration(Settlement(rd.control, rd.config))
    /\ rd' = [rd EXCEPT !.pc = "monitor"]
    /\ UNCHANGED <<configVars, applyVars, cy, sc, cr, wt, pf, ro>>

\* One state.is_ready() call of adjust and what adjust does with its answer.
Check(reason, nextpc) ==
    \E obs \in Observations, expired \in BOOLEAN, h \in HandleOutcomes :
        LET a == OptimizationsIsReady(obs, expired, h) IN
        rd' = [rd EXCEPT
                 !.last = [obs |-> obs, expired |-> expired, answer |-> a],
                 !.allTrue = @ /\ a.err = NoErr /\ a.val = "True",
                 !.polls = @ + 1,
                 !.pc = IF a.err # NoErr \/ ~Truthy(a.val) THEN "failed" ELSE nextpc,
                 !.err = IF a.err # NoErr THEN a.err
                         ELSE IF ~Truthy(a.val)
                         THEN Err("AdjustmentRejectedError", reason, 0)
                         ELSE NoErr]

\* One round of readiness_monitor: `while not progress.finished`, is_ready, sleep 5 s.
MonitorPoll ==
    /\ rd.pc = "monitor"
    /\ ~rd.finished
    /\ rd.polls < MaxPolls
    /\ Check(ReasonUnreadyDuring, "monitor")
    /\ UNCHANGED <<configVars, applyVars, cy, sc, cr, wt, pf, ro>>

\* The settlement duration has elapsed: progress.finished.
TimerFinishes ==
    /\ rd.pc = "monitor"
    /\ ~rd.finished
    /\ rd' = [rd EXCEPT !.finished = TRUE]
    /\ UNCHANGED <<configVars, applyVars, cy, sc, cr, wt, pf, ro>>

\* The gather returned: the single is_ready() check after the window, then
\* `return state.to_description()`.
FinalCheck ==
    /\ rd.pc = "monitor"
    /\ rd.finished
    /\ Check(ReasonUnreadyAfter, "returned")
    /\ UNCHANGED <<configVars, applyVars, cy, sc, cr, wt, pf, ro>>

NextReady ==
    \/ SettleSkip
    \/ SettleBegin
    \/ MonitorPoll
    \/ TimerFinishes
    \/ FinalCheck

SpecReady == InitReady /\ [][NextReady]_vars

\* C11: KubernetesOptimizations.is_ready() returns True only if every
\* optimization's is_ready() returned True, which it does only if the refresh
\* made by that call observed its controller (status.replicas set and equal to
\* status.ready_replicas) or its canary pod ready and its restart count is 0.
C11_ReadyOnlyIfAllReady ==
    /\ \A st \in ControllerStatuses :
          Truthy(ControllerIsReady(st)) =>
              st.has_status /\ st.replicas # None /\ st.replicas = st.ready_replicas
    /\ (rd.pc # "idle" /\ rd.polls >= 1 /\ rd.last.answer = Returns("True")) =>
          /\ ~rd.last.expired
          /\ \A i \in Opts :
                /\ OptimizationIsReady(rd.last.obs[i].ready, rd.last.obs[i].restarts)
                      = Returns("True")
                /\ rd.last.obs[i].ready = Returns("True")
                /\ rd.last.obs[i].restarts = Returns(0)

C11_Witness ==
    /\ rd.pc = "returned" /\ rd.polls >= 2
    /\ rd.last.answer = Returns("True")
    /\ \E i \in Opts : strategy[i] = "canary"
    /\ \E i \in Opts : strategy[i] = "default"

\* C12: with a settlement duration in effect, adjust returns a description
\* only if is_ready() was true at every poll of the window and at the check
\* after it; a check that is not true makes adjust fail with
\* AdjustmentRejectedError, reason "unready_during_settlement".
C12_Settlement ==
    /\ (rd.pc = "returned" /\ TruthyDuration(Settlement(rd.control, rd.config))) =>
          rd.allTrue /\ rd.polls >= 1
    /\ rd.pc = "failed" =>
          /\ rd.err.cls = "AdjustmentRejectedError"
          /\ rd.err.reason = "unready_during_settlement"

(***************************************************************************)
(* One DeploymentOptimization used for several adjust()/apply() cycles.    *)
(* The optimization holds `deployment` (whose `obj` is the local copy of   *)
(* the controller) and `container`, a wrapper around one of the container  *)
(* objects inside the `obj` that create() read.                            *)
(***************************************************************************)
MaxApplies == 2
MaxCycleAdjusts == 3

CycleSettings == {"cpu", "memory", "replicas"}

\* The connector is not running an adjustment: its configuration is fixed.
ConfigAtRest ==
    /\ on_failure = "rollback"
    /\ strategy = [i \in Opts |-> "default"]
    /\ ctlKind = [i \in Opts |-> "Deployment"]

NothingSent == [s \in CycleSettings |-> None]

\* DeploymentOptimization.create: `container` is found inside the deployment
\* object that was just read, and the settings take the values read.
InitCycles ==
    /\ ConfigAtRest
    /\ ApplyAtRest
    /\ rd = Idle /\ sc = Idle /\ cr = Idle /\ wt = Idle
    /\ pf = Idle /\ ro = Idle
    /\ \E o \in [CycleSettings -> Values] :
          cy = [pc |-> "ready", obj |-> o, cluster |-> o,
                container |-> [r \in Resources |-> o[r]], attached |-> TRUE,
                recorded |-> o, pending |-> {}, body |-> o, sent |-> NothingSent,
                applies |-> 0, adjusts |-> 0, err |-> NoErr]

\* Container.set_resource_requirements writes into the wrapped container
\* object; the deployment's obj changes with it only while that container
\* object is still part of it.
SetResource(c, name, value) ==
    [c EXCEPT !.container[name] = value,
              !.obj[name] = IF c.attached THEN value ELSE @]

\* DeploymentOptimization.adjust
CycleAdjust ==
    /\ cy.pc \in {"ready", "applied"}
    /\ cy.adjusts < MaxCycleAdjusts
    /\ \E setting_name \in Settings, value \in Values :
          cy' = IF setting_name \in Resources
                THEN [SetResource(cy, setting_name, value)
                        EXCEPT !.recorded[setting_name] = value,
                               !.pending = @ \cup {setting_name},
                               !.adjusts = @ + 1]
                ELSE IF setting_name = "replicas"
                THEN [cy EXCEPT !.recorded["replicas"] = value,
                                !.obj["replicas"] = value,
                                !.pending = @ \cup {"replicas"},
                                !.adjusts = @ + 1]
                ELSE [cy EXCEPT !.pc = "failed", !.adjusts = @ + 1,
                                !.err = Err("RuntimeError", "unsupported setting", 0)]
    /\ UNCHANGED <<configVars, applyVars, rd, sc, cr, wt, pf, ro>>

\* Deployment.patch: the body is the local obj, and the object the API
\* returns replaces it.
Patched(c) ==
    [c EXCEPT !.body = c.obj,
              !.sent = [s \in CycleSettings |->
                          IF s \in c.pending THEN c.recorded[s] ELSE None],
              !.pending = {},
              !.cluster = c.obj,
              !.obj = c.obj,
              !.attached = FALSE,
              !.applies = @ + 1]

ApplyErrors ==
    { Err("ApiException", "patch", 0),
      Err("AdjustmentRejectedError", ReasonTimedOutDeployment, 0),
      Err("AdjustmentRejectedError", "unstable", 0) }

\* DeploymentOptimization.apply
CycleApply ==
    /\ cy.pc \in {"ready", "applied"}
    /\ cy.applies < MaxApplies
    /\ \E e \in {NoErr} \cup ApplyErrors :
          cy' = IF e.cls = "ApiException"
                THEN [cy EXCEPT !.pc = "failed", !.err = e, !.applies = @ + 1]
                ELSE [Patched(cy) EXCEPT !.pc = IF e = NoErr THEN "applied" ELSE "failed",
                                         !.err = e]
    /\ UNCHANGED <<configVars, applyVars, rd, sc, cr, wt, pf, ro>>

NextCycles ==
    \/ CycleAdjust
    \/ CycleApply

SpecCycles == InitCycles /\ [][NextCycles]_vars

\* C13: every apply() of one DeploymentOptimization sends, in its patch body,
\* each cpu, memory and replicas value recorded by the adjust calls made since
\* the previous apply, also when an earlier apply has replaced the local obj.
C13_ApplySendsPending ==
    (cy.pc \in {"applied", "failed"} /\ cy.applies >= 1 /\ cy.err.cls # "ApiException") =>
        \A s \in CycleSettings : cy.sent[s] # None => cy.body[s] = cy.sent[s]

(***************************************************************************)
(* Deployment.inject_sidecar(service, port, index), wrapped in             *)
(* backoff.on_exception(expo, ApiException, max_tries=3).                  *)
(***************************************************************************)
MaxTries == 3
MaxIndex == 1
ProxiedPort == 8080
TargetPort == 9000

\* service: Optional[str]; port: Optional[int]; index: Optional[int]
NoService == [given |-> FALSE, name |-> ""]
ServiceInputs == {NoService, [given |-> TRUE, name |-> "web"]}
PortInputs == {None, ProxiedPort}
IndexInputs == {None} \cup (0..MaxIndex)

\* Python truth of an Optional[str] and of an Optional[int]
TruthyService(service) == service.given /\ service.name # ""
TruthyPort(port) == port # None /\ port # 0

TemplateContainers == { <<"main">>, <<"main", "aux">> }

Envoy(port) == [name |-> "opsani-envoy", container_port |-> port]
Plain(name) == [name |-> name, container_port |-> None]

\* list.insert(index, x) for index >= 0; list.append(x) when index is None
InsertAt(list, index, x) ==
    IF index = None \/ index >= Len(list) THEN Append(list, x)
    ELSE SubSeq(list, 1, index) \o <<x>> \o SubSeq(list, index + 1, Len(list))

InitSidecar ==
    /\ ConfigAtRest
    /\ ApplyAtRest
    /\ rd = Idle /\ cy = Idle /\ cr = Idle /\ wt = Idle
    /\ pf = Idle /\ ro = Idle
    /\ \E service \in ServiceInputs, port \in PortInputs, index \in IndexInputs,
          names \in TemplateContainers :
          LET cs == [k \in 1..Len(names) |-> Plain(names[k])]
          IN sc = [pc |-> "start", service |-> service, port |-> port, index |-> index,
                   obj |-> cs, cluster |-> cs, before |-> cs, tries |-> 1, patchCalls |-> 0,
                   proxied |-> None, err |-> NoErr]

\* The two argument checks, with the expressions the code evaluates.
RejectsMissing(service, port) == (~TruthyService(service)) \/ TruthyPort(port)
RejectsBoth(service, port) == TruthyService(service) /\ TruthyPort(port)

RefreshedNothing(obj, cluster) == obj

\* Deployment.refresh: self.obj becomes the object read from the cluster.
Refreshed(obj, cluster) == cluster

\* `await self.refresh()` and the argument checks that follow it.
SidecarRefresh ==
    /\ sc.pc = "start"
    /\ \E ok \in BOOLEAN :
          sc' = IF ~ok
                THEN [sc EXCEPT !.pc = "api_error", !.err = Err("ApiException", "refresh", 0)]
                ELSE IF RejectsMissing(sc.service, sc.port)
                THEN [sc EXCEPT !.obj = Refreshed(sc.obj, sc.cluster), !.pc = "raised",
                                !.err = Err("ValueError", "a service or port must be given", 0)]
                ELSE IF RejectsBoth(sc.service, sc.port)
                THEN [sc EXCEPT !.obj = Refreshed(sc.obj, sc.cluster), !.pc = "raised",
                                !.err = Err("ValueError", "service and port cannot both be given", 0)]
                ELSE [sc EXCEPT !.obj = Refreshed(sc.obj, sc.cluster), !.proxied = sc.port,
                                !.pc = IF TruthyService(sc.service) THEN "lookup" ELSE "build"]
    /\ UNCHANGED <<configVars, applyVars, rd, cy, cr, wt, pf, ro>>

\* `ser = await Service.read(...)`; `port = ser.obj.spec.ports[0].target_port`
SidecarReadService ==
    /\ sc.pc = "lookup"
    /\ \E ok \in BOOLEAN :
          sc' = IF ok THEN [sc EXCEPT !.proxied = TargetPort, !.pc = "build"]
                ELSE [sc EXCEPT !.pc = "api_error", !.err = Err("ApiException", "service", 0)]
    /\ UNCHANGED <<configVars, applyVars, rd, cy, cr, wt, pf, ro>>

\* The container is built and put into the local object, then `await self.patch()`.
SidecarPatch ==
    /\ sc.pc = "build"
    /\ \E ok \in BOOLEAN :
          LET local == InsertAt(sc.obj, sc.index, Envoy(sc.proxied))
          IN sc' = IF ok
                   THEN [sc EXCEPT !.obj = local, !.cluster = local,
                                   !.patchCalls = @ + 1, !.pc = "returned"]
                   ELSE [sc EXCEPT !.obj = local, !.patchCalls = @ + 1, !.pc = "api_error",
                                   !.err = Err("ApiException", "patch", 0)]
    /\ UNCHANGED <<configVars, applyVars, rd, cy, cr, wt, pf, ro>>

\* backoff.on_exception: an ApiException starts the call again until the
\* third try has failed, whose exception is raised to the caller.
SidecarBackoff ==
    /\ sc.pc = "api_error"
    /\ sc' = IF sc.tries < MaxTries
             THEN [sc EXCEPT !.tries = @ + 1, !.pc = "start", !.err = NoErr]
             ELSE [sc EXCEPT !.pc = "raised"]
    /\ UNCHANGED <<configVars, applyVars, rd, cy, cr, wt, pf, ro>>

NextSidecar ==
    \/ SidecarRefresh
    \/ SidecarReadService
    \/ SidecarPatch
    \/ SidecarBackoff

SpecSidecar == InitSidecar /\ [][NextSidecar]_vars

HasEnvoy(list) == \E k \in 1..Len(list) : list[k].name = "opsani-envoy"
ExactlyOneGiven(service, port) == service.given # (port # None)

\* C14: inject_sidecar adds the opsani-envoy container and patches if and only
\* if exactly one of service, port is supplied; with neither or both it fails
\* without patching the controller.
C14_ExactlyOneOfServicePort ==
    /\ (sc.pc # "idle" /\ ~ExactlyOneGiven(sc.service, sc.port)) =>
          sc.patchCalls = 0 /\ ~HasEnvoy(sc.cluster) /\ sc.pc # "returned"
    /\ (sc.pc = "raised" /\ ExactlyOneGiven(sc.service, sc.port)) =>
          sc.err.cls = "ApiException"
    /\ sc.pc = "returned" => HasEnvoy(sc.cluster) /\ sc.patchCalls >= 1

(***************************************************************************)
(* KubernetesOptimizations.create(config): one optimization is created for *)
(* each entry of config.deployments + config.rollouts, by                  *)
(* DeploymentOptimization.create or CanaryOptimization.create; the latter  *)
(* calls ensure_canary_pod on the controller it read.                      *)
(***************************************************************************)
MaxEntries == 2

\* The containers of every controller's pod template in the cluster.
TemplateNames == {"main"}

EntriesOf(kind, names) ==
    { [kind |-> kind, name |-> n, strategy |-> st, container |-> c, alias |-> a] :
        n \in names, st \in {"default", "canary"}, c \in {"main", "ghost"},
        a \in BOOLEAN } \ { e \in [kind : {kind}, name : names, strategy : {"default"},
                                   container : {"main", "ghost"}, alias : {TRUE}] : TRUE }

\* config.deployments + config.rollouts
Configs ==
    LET D == EntriesOf("Deployment", {"web", "api"})
        R == EntriesOf("Rollout", {"web"})
    IN { <<d>> : d \in D } \cup { <<r>> : r \in R }
       \cup { <<d, e>> : d \in D, e \in D \cup R }

Controller(entry) == [kind |-> entry.kind, name |-> entry.name]
Controllers == { [kind |-> "Deployment", name |-> "web"], [kind |-> "Deployment", name |-> "api"],
                 [kind |-> "Rollout", name |-> "web"] }

\* What Pod.read of "<controller>-canary" gives: the pod, or the exception raised.
Found == [status |-> 200, reason |-> "OK"]
NotFound == [status |-> 404, reason |-> "Not Found"]
ReadOutcomes(exists) ==
    IF exists THEN {Found, [status |-> 500, reason |-> "Internal Server Error"]}
    ELSE {NotFound, [status |-> 404, reason |-> "Gone"],
          [status |-> 500, reason |-> "Internal Server Error"]}

NoEnsure == [controller |-> [kind |-> "", name |-> ""], read |-> Found, created |-> 0,
             waited |-> FALSE, result |-> "none", before |-> {}, after |-> {}]

InitCreate ==
    /\ ConfigAtRest
    /\ ApplyAtRest
    /\ rd = Idle /\ cy = Idle /\ sc = Idle /\ wt = Idle
    /\ pf = Idle /\ ro = Idle
    /\ \E config \in Configs, pods \in SUBSET Controllers :
          cr = [pc |-> "entry", config |-> config, pods |-> pods, k |-> 1,
                optimizations |-> <<>>, looked |-> 0, ensure |-> NoEnsure, err |-> NoErr]

CreateFails(c, e) == [c EXCEPT !.pc = "failed", !.err = e]

NameTheContainers(c) ==
    CreateFails(c, Err("ValueError", "no container named ... exists in the Pod (found main)", c.k))

Appended(c, name) ==
    [c EXCEPT !.optimizations =
                  Append(@, [target |-> Controller(c.config[c.k]),
                             strategy |-> c.config[c.k].strategy, name |-> name]),
              !.k = @ + 1, !.pc = "entry"]

\* DeploymentOptimization.create after the controller was read
DeploymentOptimizationCreate(c) ==
    LET entry == c.config[c.k]
        looked == [c EXCEPT !.looked = c.k]
    IN IF entry.container \notin TemplateNames THEN NameTheContainers(looked)
       ELSE Appended(looked, "deployment/container")

\* CanaryOptimization.create after ensure_canary_pod returned: find_container
\* and get_container return None for a name that is not there, and the name
\* is the alias or is built from canary_container.name.
CanaryOptimizationCreate(c) ==
    LET entry == c.config[c.k]
        looked == [c EXCEPT !.looked = c.k]
    IN IF entry.container \in TemplateNames
       THEN Appended(looked, IF entry.alias THEN "alias" ELSE "deployment/container-canary")
       ELSE IF entry.alias
       THEN CreateFails(looked, Err("ValidationError", "none is not an allowed value", c.k))
       ELSE CreateFails(looked, Err("AttributeError",
                                    "'NoneType' object has no attribute 'name'", c.k))

\* The loop head of KubernetesOptimizations.create: the next entry's
\* controller is read, and a default strategy creates its optimization.
CreateEntry ==
    /\ cr.pc = "entry"
    /\ cr.k <= Len(cr.config)
    /\ \E ok \in BOOLEAN :
          cr' = IF ~ok THEN CreateFails(cr, Err("ApiException", "read controller", cr.k))
                ELSE IF cr.config[cr.k].strategy = "default" THEN DeploymentOptimizationCreate(cr)
                ELSE [cr EXCEPT !.pc = "ensure"]
    /\ UNCHANGED <<configVars, applyVars, rd, cy, sc, wt, pf, ro>>

ReadPropagatesUnless404(e) == e.status # 404

\* `except ApiException as e: if e.status != 404 or e.reason != "Not Found": raise`
ReadPropagates(e) == e.status # 404 \/ e.reason # "Not Found"

\* ensure_canary_pod, the lookup: an existing pod is returned.
EnsureLookup ==
    /\ cr.pc = "ensure"
    /\ LET ctl == Controller(cr.config[cr.k])
       IN \E read \in ReadOutcomes(ctl \in cr.pods) :
             LET e == [controller |-> ctl, read |-> read, created |-> 0, waited |-> FALSE,
                       result |-> "none", before |-> cr.pods, after |-> cr.pods]
             IN cr' = IF read = Found
                      THEN CanaryOptimizationCreate([cr EXCEPT !.ensure = [e EXCEPT !.result = "returned"]])
                      ELSE IF ReadPropagates(read)
                      THEN CreateFails([cr EXCEPT !.ensure = [e EXCEPT !.result = "raised"]],
                                       Err("ApiException", read.reason, cr.k))
                      ELSE [cr EXCEPT !.ensure = e, !.pc = "ensure_create"]
    /\ UNCHANGED <<configVars, applyVars, rd, cy, sc, wt, pf, ro>>

\* ensure_canary_pod, the creation: create(), wait_until_ready(), refresh().
EnsureCreate ==
    /\ cr.pc = "ensure_create"
    /\ LET ctl == Controller(cr.config[cr.k])
       IN \E outcome \in {"ok", "create_failed", "not_ready"} :
             LET pods == IF outcome = "create_failed" THEN cr.pods ELSE cr.pods \cup {ctl}
                 e == [cr.ensure EXCEPT !.created = @ + 1, !.after = pods,
                                        !.waited = outcome # "create_failed",
                                        !.result = IF outcome = "ok" THEN "returned"
                                                   ELSE "raised"]
                 c == [cr EXCEPT !.ensure = e, !.pods = pods]
             IN cr' = IF outcome = "ok" THEN CanaryOptimizationCreate(c)
                      ELSE IF outcome = "create_failed"
                      THEN CreateFails(c, Err("ApiException", "create", cr.k))
                      ELSE CreateFails(c, Err("TimeoutError", "wait_until_ready", cr.k))
    /\ UNCHANGED <<configVars, applyVars, rd, cy, sc, wt, pf, ro>>

\* The loop is over: the KubernetesOptimizations object is returned.
CreateReturn ==
    /\ cr.pc = "entry"
    /\ cr.k > Len(cr.config)
    /\ cr' = [cr EXCEPT !.pc = "returned"]
    /\ UNCHANGED <<configVars, applyVars, rd, cy, sc, wt, pf, ro>>

NextCreate ==
    \/ CreateEntry
    \/ EnsureLookup
    \/ EnsureCreate
    \/ CreateReturn

SpecCreate == InitCreate /\ [][NextCreate]_vars

C16_MissingContainerIsConfigurationError ==
    (cr.pc # "idle" /\ cr.looked # 0 /\ cr.config[cr.looked].container \notin TemplateNames) =>
        /\ cr.pc = "failed"
        /\ cr.err.cls = "ValueError"
        /\ cr.err.reason = "no container named ... exists in the Pod (found main)"
        /\ Len(cr.optimizations) < cr.looked

\* C17: when create succeeds, the optimizations are one per configured
\* controller, in the order deployments then rollouts, and no two of them
\* target the same controller.
C17_OneOptimizationPerController ==
    cr.pc = "returned" =>
        /\ Len(cr.optimizations) = Len(cr.config)
        /\ \A k \in 1..Len(cr.config) :
              cr.optimizations[k].target = Controller(cr.config[k])
        /\ \A j, k \in 1..Len(cr.optimizations) :
              j # k => cr.optimizations[j].target # cr.optimizations[k].target

(***************************************************************************)
(* wait_for_condition, as called by wait_until_ready (the check is         *)
(* Pod.is_ready) and by wait_until_deleted (the check is deleted_fn).      *)
(* Time is counted in seconds; a check takes 0 or 1 of them.               *)
(***************************************************************************)
MaxTimeout == 2
MaxInterval == 2
StartClock == 1
MaxClock == StartClock + MaxTimeout + MaxInterval

RefreshOutcomes == ReadOutcomes(TRUE) \cup ReadOutcomes(FALSE)

\* Pod.is_ready: refresh(), then the conditions of the status it read.
PodCheck(refresh, conds) ==
    IF refresh # Found THEN Raises(Err("ApiException", refresh.reason, 0))
    ELSE PodIsReady(conds)

DeletedFnAny404(refresh) ==
    IF refresh = Found THEN Returns("False")
    ELSE IF refresh.status = 404 THEN Returns("True")
    ELSE Raises(Err("ApiException", refresh.reason, 0))

\* deleted_fn of wait_until_deleted
DeletedFn(refresh) ==
    IF refresh = Found THEN Returns("False")
    ELSE IF refresh.status = 404 /\ refresh.reason = "Not Found" THEN Returns("True")
    ELSE Raises(Err("ApiException", refresh.reason, 0))

\* The inputs of one check and what Condition.check gives for them.
Checks(kind) ==
    IF kind = "deleted"
    THEN { [refresh |-> r, conds |-> <<>>, answer |-> DeletedFn(r)] : r \in RefreshOutcomes }
    ELSE { [refresh |-> r, conds |-> <<>>, answer |-> PodCheck(r, <<>>)] :
              r \in RefreshOutcomes \ {Found} }
         \cup { [refresh |-> Found, conds |-> c, answer |-> PodCheck(Found, c)] :
                  c \in PodConditionLists }

CheckTable == [kind \in {"ready", "deleted"} |-> Checks(kind)]

InitWait ==
    /\ ConfigAtRest
    /\ ApplyAtRest
    /\ rd = Idle /\ cy = Idle /\ sc = Idle /\ cr = Idle
    /\ pf = Idle /\ ro = Idle
    /\ \E kind \in {"ready", "deleted"}, timeout \in {None} \cup (0..MaxTimeout),
          interval \in 1..MaxInterval, fail_on_api_error \in BOOLEAN :
          /\ kind = "deleted" => fail_on_api_error
          /\ wt = [pc |-> "top", kind |-> kind, timeout |-> timeout, interval |-> interval,
                   fail_on_api_error |-> fail_on_api_error, now |-> StartClock,
                   max_time |-> IF timeout # None THEN StartClock + timeout ELSE None,
                   checks |-> 0, slept |-> 0, at |-> None,
                   last |-> [refresh |-> Found, conds |-> <<>>, answer |-> Returns("False")],
                   err |-> NoErr]

ExpiredLate(max_time, now) == TruthyDuration(max_time) /\ now > max_time

\* `if max_time and time.time() >= max_time`
Expired(max_time, now) == TruthyDuration(max_time) /\ now >= max_time

\* The deadline has passed at the top of the loop: TimeoutError.
WaitExpire ==
    /\ wt.pc = "top"
    /\ Expired(wt.max_time, wt.now)
    /\ wt' = [wt EXCEPT !.pc = "raised", !.err = Err("TimeoutError", "timed out", 0)]
    /\ UNCHANGED <<configVars, applyVars, rd, cy, sc, cr, pf, ro>>

IgnoredAnyError(err, fail_on_api_error) == ~fail_on_api_error

\* `except ApiException as e: ... if fail_on_api_error: raise`: whether an
\* exception of the check is logged and the loop goes on to the sleep.
Ignored(err, fail_on_api_error) ==
    err.cls = "ApiException" /\ ~fail_on_api_error

\* One pass of the loop up to the sleep: `await condition.check()`.
WaitCheck ==
    /\ wt.pc = "top"
    /\ ~Expired(wt.max_time, wt.now)
    /\ \E check \in CheckTable[wt.kind], took \in 0..1 :
          /\ wt.now + took <= MaxClock
          /\ LET w == [wt EXCEPT !.last = check, !.at = wt.now, !.checks = @ + 1,
                                 !.now = @ + took]
             IN wt' = IF check.answer.err = NoErr
                      THEN [w EXCEPT !.pc = IF Truthy(check.answer.val) THEN "returned"
                                            ELSE "sleep"]
                      ELSE IF Ignored(check.answer.err, wt.fail_on_api_error)
                      THEN [w EXCEPT !.pc = "sleep"]
                      ELSE [w EXCEPT !.pc = "raised", !.err = check.answer.err]
    /\ UNCHANGED <<configVars, applyVars, rd, cy, sc, cr, pf, ro>>

\* `await asyncio.sleep(interval)`
WaitSleep ==
    /\ wt.pc = "sleep"
    /\ wt.now + wt.interval <= MaxClock
    /\ wt' = [wt EXCEPT !.pc = "top", !.now = @ + wt.interval, !.slept = @ + 1]
    /\ UNCHANGED <<configVars, applyVars, rd, cy, sc, cr, pf, ro>>

NextWait ==
    \/ WaitExpire
    \/ WaitCheck
    \/ WaitSleep

\* The event loop runs the waiting coroutine whenever it can make a step.
SpecWait == InitWait /\ [][NextWait]_vars /\ WF_vars(NextWait)

WaitSafe ==
    wt.pc # "idle" =>
        /\ wt.pc = "returned" <=> (wt.checks >= 1 /\ wt.last.answer = Returns("True"))
        /\ (wt.checks >= 1 /\ wt.max_time # None) => wt.at < wt.max_time
        /\ wt.err.cls = "TimeoutError" =>
              /\ wt.timeout # None
              /\ wt.now - StartClock >= wt.timeout
              /\ wt.pc = "raised"
        /\ (wt.pc = "top" \/ wt.err.cls = "TimeoutError") => wt.slept = wt.checks
        /\ (wt.pc \in {"sleep", "returned"} \/ wt.err.cls \notin {"None", "TimeoutError"}) =>
              wt.slept = wt.checks - 1
        /\ wt.now - StartClock >= wt.slept * wt.interval

\* C18: wait_for_condition returns exactly when a check has yielded a truthy
\* result; with a timeout it invokes no check at or after the deadline and,
\* whatever the checks yield, terminates (by TimeoutError only once the elapsed
\* time has reached the timeout); between two checks it sleeps `interval`.
C18_WaitForCondition ==
    /\ []WaitSafe
    /\ (wt.pc # "idle" /\ wt.timeout # None) ~> (wt.pc \in {"returned", "raised"})

C18_Witness ==
    /\ wt.pc = "raised" /\ wt.err.cls = "TimeoutError"
    /\ wt.checks >= 2 /\ wt.timeout = MaxTimeout

\* C19: wait_until_deleted returns exactly when a refresh failed with status
\* 404 and reason "Not Found"; a refresh that succeeds keeps it polling; any
\* other API error of the refresh is propagated.
C19_WaitUntilDeleted ==
    (wt.pc # "idle" /\ wt.kind = "deleted" /\ wt.checks >= 1) =>
        /\ wt.pc = "returned" <=> wt.last.refresh = NotFound
        /\ wt.last.refresh = Found =>
              \/ wt.pc \in {"sleep", "top"}
              \/ wt.pc = "raised" /\ wt.err.cls = "TimeoutError"
        /\ wt.last.refresh \notin {Found, NotFound} =>
              /\ wt.pc = "raised"
              /\ wt.err = Err("ApiException", wt.last.refresh.reason, 0)

C19_Witness ==
    /\ wt.kind = "deleted" /\ wt.pc = "returned"
    /\ wt.checks >= 2 /\ wt.last.refresh = NotFound

\* C20: Pod.is_ready fails with AdjustmentRejected, reason scheduling-failed,
\* for every conditions list that has a condition with reason "Unschedulable"
\* at any position; otherwise it returns true iff the list has a condition of
\* type Ready with status True.
C20_UnschedulableAnywhere ==
    (wt.pc # "idle" /\ wt.kind = "ready" /\ wt.checks >= 1 /\ wt.last.refresh = Found) =>
        LET conds == wt.last.conds
        IN IF \E k \in 1..Len(conds) : conds[k].reason = "Unschedulable"
           THEN wt.last.answer = Raises(Err("AdjustmentRejectedError", "scheduling-failed", 0))
           ELSE wt.last.answer =
                   Returns(Bool(\E k \in 1..Len(conds) :
                                   conds[k].type = "Ready" /\ conds[k].status = "True"))

(***************************************************************************)
(* Container.set_resource_requirements and get_resource_requirements on    *)
(* the V1ResourceRequirements of one container: `requests` and `limits`    *)
(* are each None or a dict from resource names to quantity strings.        *)
(***************************************************************************)
Quantities == {"250m", "1"}
Absent == "absent"

\* list(ResourceRequirements) without the named combination `compute`
Members == <<"request", "limit">>
FlagSets == {{"request"}, {"limit"}, {"request", "limit"}}
resources_key(member) == IF member = "request" THEN "requests" ELSE "limits"

NoneDict == [none |-> TRUE, items |-> [r \in Resources |-> Absent]]
Dicts == {NoneDict} \cup [none : {FALSE}, items : [Resources -> Quantities \cup {Absent}]]

InitRequirements ==
    /\ ConfigAtRest
    /\ ApplyAtRest
    /\ rd = Idle /\ cy = Idle /\ sc = Idle /\ cr = Idle /\ wt = Idle /\ ro = Idle
    /\ \E requests \in Dicts, limits \in Dicts, name \in Resources, value \in Quantities,
          F \in FlagSets, clear_others \in BOOLEAN :
          pf = [pc |-> "start", resources |-> [requests |-> requests, limits |-> limits],
                before |-> [requests |-> requests, limits |-> limits],
                name |-> name, value |-> value, requirements |-> F,
                clear_others |-> clear_others, result |-> <<>>]

SetMemberKeeping(dict, name, selected, req_value, clear_others) ==
    IF selected THEN [none |-> FALSE, items |-> [dict.items EXCEPT ![name] = req_value]]
    ELSE [none |-> FALSE, items |-> dict.items]

\* One pass of the loop of set_resource_requirements: a None dict is
\* replaced by {}, then the value is stored or, with clear_others, popped.
SetMember(dict, name, selected, req_value, clear_others) ==
    IF selected THEN [none |-> FALSE, items |-> [dict.items EXCEPT ![name] = req_value]]
    ELSE IF clear_others THEN [none |-> FALSE, items |-> [dict.items EXCEPT ![name] = Absent]]
    ELSE [none |-> FALSE, items |-> dict.items]

\* `values.pop(0) if len(values) else default`, walking the members in order
RECURSIVE SetFrom(_, _, _, _, _, _, _)
SetFrom(res, k, name, values, default, F, clear_others) ==
    IF k > Len(Members) THEN res
    ELSE LET key == resources_key(Members[k])
             selected == Members[k] \in F
             req_value == IF values # <<>> THEN Head(values) ELSE default
             rest == IF selected /\ values # <<>> THEN Tail(values) ELSE values
         IN SetFrom([res EXCEPT ![key] = SetMember(res[key], name, selected, req_value,
                                                   clear_others)],
                    k + 1, name, rest, default, F, clear_others)

set_resource_requirements(res, name, value, F, clear_others) ==
    SetFrom(res, 1, name, <<value>>, value, F, clear_others)

\* get_resource_requirements(name, requirements, first=False, reverse=False):
\* the tuple of the selected members' values, `default` where one is not set.
RECURSIVE GetFrom(_, _, _, _, _)
GetFrom(res, k, name, F, default) ==
    IF k > Len(Members) THEN <<>>
    ELSE LET dict == res[resources_key(Members[k])]
             found == ~dict.none /\ dict.items[name] # Absent
         IN (IF Members[k] \notin F THEN <<>>
             ELSE IF found THEN <<dict.items[name]>> ELSE <<default>>)
            \o GetFrom(res, k + 1, name, F, default)

get_resource_requirements(res, name, F, default) == GetFrom(res, 1, name, F, default)

SetRequirements ==
    /\ pf.pc = "start"
    /\ pf' = [pf EXCEPT !.pc = "set",
                        !.resources = set_resource_requirements(pf.resources, pf.name, pf.value,
                                                                pf.requirements, pf.clear_others)]
    /\ UNCHANGED <<configVars, applyVars, rd, cy, sc, cr, wt, ro>>

GetRequirements ==
    /\ pf.pc = "set"
    /\ pf' = [pf EXCEPT !.pc = "got",
                        !.result = get_resource_requirements(pf.resources, pf.name,
                                                             {"request", "limit"}, "None")]
    /\ UNCHANGED <<configVars, applyVars, rd, cy, sc, cr, wt, ro>>

NextRequirements ==
    \/ SetRequirements
    \/ GetRequirements

SpecRequirements == InitRequirements /\ [][NextRequirements]_vars

\* C21: after set_resource_requirements(name, value, F, clear_others=True),
\* get_resource_requirements(name, compute) gives `value` for every member of
\* F and the default for every member outside F, whatever was held before.
C21_RequirementRoundTrip ==
    (pf.pc = "got" /\ pf.clear_others) =>
        /\ Len(pf.result) = Len(Members)
        /\ \A k \in 1..Len(Members) :
              pf.result[k] = IF Members[k] \in pf.requirements THEN pf.value ELSE "None"

C21_Witness ==
    /\ pf.pc = "got" /\ pf.clear_others
    /\ pf.requirements = {"request"}
    /\ pf.before.requests.none
    /\ pf.before.limits.items[pf.name] \notin {Absent, pf.value}
    /\ pf.result = <<pf.value, "None">>

(***************************************************************************)
(* KubernetesConfiguration.__init__ and cascade_common_settings: the       *)
(* fields BaseKubernetesConfiguration declares are copied from the parent  *)
(* onto every child DeploymentConfiguration and RolloutConfiguration.      *)
(***************************************************************************)
CascadedFields == {"kubeconfig", "context", "namespace", "settlement", "on_failure", "timeout"}

\* The defaults BaseKubernetesConfiguration declares (the children inherit
\* them) and those KubernetesConfiguration overrides.
BaseDefault(f) == IF f = "on_failure" THEN "crash" ELSE "None"
ParentDefault(f) ==
    IF f = "namespace" THEN "default" ELSE IF f = "timeout" THEN "5m" ELSE BaseDefault(f)

\* A model as pydantic built it from the user's input: the fields given are
\* in __fields_set__, the others hold the class default.
Children ==
    UNION { { [value |-> [f \in CascadedFields |->
                            IF f \in custom THEN "custom" ELSE BaseDefault(f)],
               fields_set |-> given] : custom \in SUBSET given } :
            given \in SUBSET CascadedFields }

Parents ==
    { [f \in CascadedFields |-> IF f \in given THEN "parent" ELSE ParentDefault(f)] :
        given \in SUBSET CascadedFields }

InitCascade ==
    /\ ConfigAtRest
    /\ ApplyAtRest
    /\ rd = Idle /\ cy = Idle /\ sc = Idle /\ cr = Idle /\ wt = Idle /\ ro = Idle
    /\ \E parent \in Parents, child \in Children :
          pf = [pc |-> "validated", parent |-> parent,
                child |-> child, given |-> child, cascades |-> 0]

CascadesIgnoringFieldsSet(f, child, overwrite) ==
    overwrite \/ child.value[f] = BaseDefault(f)

\* The two tests of the inner loop: a field in __fields_set__ is skipped
\* unless overwrite, and the value must equal the declared default.
Cascades(f, child, overwrite) ==
    /\ ~(f \in child.fields_set /\ ~overwrite)
    /\ overwrite \/ child.value[f] = BaseDefault(f)

\* cascade_common_settings on one child; setattr on a pydantic model also
\* records the field in __fields_set__.
cascade_common_settings(parent, child, overwrite) ==
    LET moved == { f \in CascadedFields : Cascades(f, child, overwrite) }
    IN [value |-> [f \in CascadedFields |->
                      IF f \in moved THEN parent[f] ELSE child.value[f]],
        fields_set |-> child.fields_set \cup moved]

\* KubernetesConfiguration.__init__: `self.cascade_common_settings()`
Construct ==
    /\ pf.pc = "validated"
    /\ pf' = [pf EXCEPT !.pc = "constructed",
                        !.child = cascade_common_settings(pf.parent, pf.child, FALSE)]
    /\ UNCHANGED <<configVars, applyVars, rd, cy, sc, cr, wt, ro>>

\* A later call of cascade_common_settings(overwrite=...)
CascadeAgain ==
    /\ pf.pc \in {"constructed", "cascaded"}
    /\ pf.cascades < 1
    /\ \E overwrite \in BOOLEAN :
          pf' = [pf EXCEPT !.pc = IF overwrite THEN "overwritten" ELSE "cascaded",
                           !.cascades = @ + 1,
                           !.child = cascade_common_settings(pf.parent, pf.child, overwrite)]
    /\ UNCHANGED <<configVars, applyVars, rd, cy, sc, cr, wt, ro>>

NextCascade ==
    \/ Construct
    \/ CascadeAgain

SpecCascade == InitCascade /\ [][NextCascade]_vars

\* C22: after construction every cascaded field the user set on a child keeps
\* the child's value and every field not set (holding its default) has the
\* parent's value; after a cascade with overwrite=True every cascaded field of
\* the child has the parent's value.
C22_CascadeCommonSettings ==
    /\ pf.pc = "constructed" =>
          \A f \in CascadedFields :
              pf.child.value[f] = IF f \in pf.given.fields_set THEN pf.given.value[f]
                                  ELSE pf.parent[f]
    /\ pf.pc = "overwritten" =>
          \A f \in CascadedFields : pf.child.value[f] = pf.parent[f]

C22_Witness ==
    /\ pf.pc = "constructed"
    /\ "namespace" \in pf.given.fields_set /\ pf.given.value["namespace"] = BaseDefault("namespace")
    /\ "timeout" \in pf.given.fields_set /\ pf.child.value["timeout"] = "custom"
    /\ "on_failure" \notin pf.given.fields_set /\ pf.child.value["on_failure"] = "parent"
    /\ "settlement" \notin pf.given.fields_set /\ pf.child.value["settlement"] = "None"

(***************************************************************************)
(* The version_id of KubernetesOptimizations.create: the loop stores       *)
(* `images[container.name] = container.image` for every optimization and   *)
(* the id is the hash of the images in the order of the sorted names.  The *)
(* hash is taken as injective: the id is the list that is hashed.          *)
(***************************************************************************)
\* The container names a configuration can use, in sorted order.
SortedContainerNames == <<"app", "main">>
ContainerNameSet == { SortedContainerNames[k] : k \in 1..Len(SortedContainerNames) }
Images == {"v1", "v2"}

\* The dict after the loop over the optimizations: a later entry with the
\* same container name replaces the earlier one.
RECURSIVE ImagesFrom(_, _, _, _)
ImagesFrom(dict, names, images, k) ==
    IF k > Len(names) THEN dict
    ELSE ImagesFrom([dict EXCEPT ![names[k]] = images[k]], names, images, k + 1)

\* [images[k] for k in sorted(images.keys())]
RECURSIVE ImagesSorted(_, _)
ImagesSorted(dict, k) ==
    IF k > Len(SortedContainerNames) THEN <<>>
    ELSE (IF dict[SortedContainerNames[k]] = Absent THEN <<>>
          ELSE <<dict[SortedContainerNames[k]]>>) \o ImagesSorted(dict, k + 1)

version_id(names, images) ==
    ImagesSorted(ImagesFrom([n \in ContainerNameSet |-> Absent], names, images, 1), 1)

\* Two create() calls with one configuration: names[k] is the container name
\* of the k-th configured controller, first[k] and second[k] its image in the
\* cluster at the first and at the second call.
InitVersion ==
    /\ ConfigAtRest
    /\ ApplyAtRest
    /\ rd = Idle /\ cy = Idle /\ sc = Idle /\ cr = Idle /\ wt = Idle /\ ro = Idle
    /\ \E n \in 1..MaxEntries :
          \E names \in [1..n -> ContainerNameSet], first \in [1..n -> Images],
             second \in [1..n -> Images] :
             pf = [pc |-> "start", names |-> names, first |-> first, second |-> second,
                   ids |-> <<>>]

VersionCreate ==
    /\ pf.pc \in {"start", "created"}
    /\ pf' = [pf EXCEPT !.pc = IF pf.pc = "start" THEN "created" ELSE "compared",
                        !.ids = Append(@, version_id(pf.names,
                                                     IF pf.pc = "start" THEN pf.first
                                                     ELSE pf.second))]
    /\ UNCHANGED <<configVars, applyVars, rd, cy, sc, cr, wt, ro>>

NextVersion == VersionCreate

SpecVersion == InitVersion /\ [][NextVersion]_vars

\* C23: for two create() calls with the same configuration the version_id
\* values differ if the image of any optimized target container differs
\* between the two cluster states, and are equal if none differs, also when
\* several controllers use the same container name.
C23_VersionIdDetectsImageChange ==
    pf.pc = "compared" =>
        ((\E k \in 1..Len(pf.names) : pf.first[k] # pf.second[k]) <=> pf.ids[1] # pf.ids[2])

(***************************************************************************)
(* Millicore: an int subclass whose __str__ renders "Nm", or the whole     *)
(* number of cores when divisible by 1000, and whose parse reads both.     *)
(* A string is the sequence of its characters.                             *)
(***************************************************************************)
MaxMillicores == 2100

DigitChars == <<"0", "1", "2", "3", "4", "5", "6", "7", "8", "9">>
DigitValue(c) == CHOOSE d \in 0..9 : DigitChars[d + 1] = c

\* str(int(n)) for n >= 0
RECURSIVE IntStr(_)
IntStr(n) ==
    IF n < 10 THEN <<DigitChars[n + 1]>>
    ELSE Append(IntStr(n \div 10), DigitChars[(n % 10) + 1])

\* int(s) for a string of digits
RECURSIVE IntParse(_)
IntParse(chars) ==
    IF Len(chars) = 1 THEN DigitValue(chars[1])
    ELSE IntParse(SubSeq(chars, 1, Len(chars) - 1)) * 10 + DigitValue(chars[Len(chars)])

MillicoreStrTruncating(n) == IntStr(n \div 1000)

\* Millicore.__str__
MillicoreStr(n) ==
    IF n % 1000 = 0 THEN IntStr(n \div 1000) ELSE IntStr(n) \o <<"m">>

\* Millicore.parse of a string: `int(v[:-1])` or `int(float(v) * 1000)`
MillicoreParse(v) ==
    IF v[Len(v)] = "m" THEN IntParse(SubSeq(v, 1, Len(v) - 1))
    ELSE IntParse(v) * 1000

InitMillicore ==
    /\ ConfigAtRest
    /\ ApplyAtRest
    /\ rd = Idle /\ cy = Idle /\ sc = Idle /\ cr = Idle /\ wt = Idle /\ ro = Idle
    /\ \E n \in 1..MaxMillicores : pf = [pc |-> "start", n |-> n, text |-> <<>>, parsed |-> 0]

MillicoreFormat ==
    /\ pf.pc = "start"
    /\ pf' = [pf EXCEPT !.pc = "formatted", !.text = MillicoreStr(pf.n)]
    /\ UNCHANGED <<configVars, applyVars, rd, cy, sc, cr, wt, ro>>

MillicoreReparse ==
    /\ pf.pc = "formatted"
    /\ pf' = [pf EXCEPT !.pc = "parsed", !.parsed = MillicoreParse(pf.text)]
    /\ UNCHANGED <<configVars, applyVars, rd, cy, sc, cr, wt, ro>>

NextMillicore ==
    \/ MillicoreFormat
    \/ MillicoreReparse

SpecMillicore == InitMillicore /\ [][NextMillicore]_vars

\* C24: Millicore.parse(str(Millicore(n))) == n for every positive integer n,
\* where str ends in "m" unless n is divisible by 1000 and then is the whole
\* number n/1000.
C24_MillicoreRoundTrip ==
    /\ pf.pc = "parsed" => pf.parsed = pf.n
    /\ pf.pc \in {"formatted", "parsed"} =>
          /\ pf.text[Len(pf.text)] = "m" <=> pf.n % 1000 # 0
          /\ IntParse(SubSeq(pf.text, 1, Len(pf.text) - (IF pf.n % 1000 = 0 THEN 0 ELSE 1)))
                = IF pf.n % 1000 = 0 THEN pf.n \div 1000 ELSE pf.n

C24_Witness ==
    /\ pf.pc = "parsed" /\ pf.n = 2000 /\ pf.text = <<"2">> /\ pf.parsed = 2000

(***************************************************************************)
(* The timers of one apply() task and of the orchestrator's wait_for       *)
(* around the gather, in minutes since KubernetesOptimizations.apply       *)
(* started the task.  The patch of a direct apply takes no time; a phase   *)
(* may complete at any time before its own timer fires.                    *)
(***************************************************************************)
MaxConfigMinutes == 12
GraceMinutes == 1          \* `timeout.total_seconds() + 60`
CanaryReadyMinutes == 10   \* `wait_until_ready(timeout=600)`
CanaryDeleteMinutes == 10  \* delete_canary_pod(..., timeout=600)

\* The timer of the phase an apply() task is in.
OwnTimeout(phase, timeout) ==
    IF phase = "rollout" THEN timeout
    ELSE IF phase = "deleting" THEN CanaryDeleteMinutes
    ELSE CanaryReadyMinutes

OwnTimeoutError(phase) ==
    IF phase = "rollout"
    THEN Err("AdjustmentRejectedError", ReasonTimedOutDeployment, 0)
    ELSE Err("TimeoutError", phase, 0)

InitTimers ==
    /\ ConfigAtRest
    /\ ApplyAtRest
    /\ rd = Idle /\ cy = Idle /\ sc = Idle /\ cr = Idle /\ wt = Idle /\ ro = Idle
    /\ \E strat \in {"default", "canary"}, timeout \in 1..MaxConfigMinutes :
          pf = [pc |-> "running", strategy |-> strat, timeout |-> timeout, now |-> 0,
                phase |-> IF strat = "default" THEN "rollout" ELSE "deleting",
                started |-> 0, err |-> NoErr]

OwnDue == pf.started + OwnTimeout(pf.phase, pf.timeout)
GatherDue == pf.timeout + GraceMinutes

\* A minute passes; no timer that is due is passed over.
TimerTick ==
    /\ pf.pc = "running"
    /\ pf.now < OwnDue /\ pf.now < GatherDue
    /\ pf' = [pf EXCEPT !.now = @ + 1]
    /\ UNCHANGED <<configVars, applyVars, rd, cy, sc, cr, wt, ro>>

\* The phase of the task completes before its timer fires.
PhaseCompletes ==
    /\ pf.pc = "running"
    /\ pf.now < OwnDue
    /\ pf' = IF pf.phase = "deleting"
             THEN [pf EXCEPT !.phase = "waiting_ready", !.started = pf.now]
             ELSE [pf EXCEPT !.pc = "applied"]
    /\ UNCHANGED <<configVars, applyVars, rd, cy, sc, cr, wt, ro>>

\* The task's own timer fires: apply() raises its own error into the gather.
OwnTimerFires ==
    /\ pf.pc = "running"
    /\ pf.now = OwnDue
    /\ pf' = [pf EXCEPT !.pc = "own_timeout", !.err = OwnTimeoutError(pf.phase)]
    /\ UNCHANGED <<configVars, applyVars, rd, cy, sc, cr, wt, ro>>

\* asyncio.wait_for around the gather expires: asyncio.TimeoutError.
GatherTimerFires ==
    /\ pf.pc = "running"
    /\ pf.now = GatherDue
    /\ pf' = [pf EXCEPT !.pc = "gather_timeout", !.err = Err("asyncio.TimeoutError", "", 0)]
    /\ UNCHANGED <<configVars, applyVars, rd, cy, sc, cr, wt, ro>>

NextTimers ==
    \/ TimerTick
    \/ PhaseCompletes
    \/ OwnTimerFires
    \/ GatherTimerFires

SpecTimers == InitTimers /\ [][NextTimers]_vars

\* C25: for every strategy and configured timeout the optimization's own
\* timeout fires no later than the orchestrator's wait of config.timeout + 60 s:
\* a slow apply ends with the optimization's own timeout error, never with the
\* orchestrator's.
C25_OwnTimeoutFirst ==
    /\ pf.pc # "gather_timeout"
    /\ pf.pc = "own_timeout" => pf.now <= GatherDue

(***************************************************************************)
(* Deployment.rollout on its own: the baseline captured before the yield,  *)
(* the body of the scope, and the watch.  Each event is handled as the     *)
(* code handles it: the condition check on the status the event carries,   *)
(* then the awaited pod check, which lists the replica sets at that        *)
(* moment, then the generation and replica-count tests.                    *)
(***************************************************************************)
MaxWatchEvents == 2
MaxEventConds == 2
MaxVersionDigits == 2

\* metadata.resource_version is a string of digits: the last version of
\* MaxVersionDigits - 1 digits and the first of MaxVersionDigits digits.
RECURSIVE Pow10(_)
Pow10(k) == IF k = 0 THEN 1 ELSE 10 * Pow10(k - 1)
LastShortVersion == IntStr(Pow10(MaxVersionDigits - 1) - 1)
RolledVersion == IntStr(Pow10(MaxVersionDigits - 1))
ResourceVersions == {LastShortVersion, RolledVersion}

\* a < b for Python strings of digits: character by character, a proper
\* prefix first.
RECURSIVE StrLessFrom(_, _, _)
StrLessFrom(a, b, k) ==
    IF k > Len(b) THEN FALSE
    ELSE IF k > Len(a) THEN TRUE
    ELSE IF a[k] = b[k] THEN StrLessFrom(a, b, k + 1)
    ELSE DigitValue(a[k]) < DigitValue(b[k])

StrLess(a, b) == StrLessFrom(a, b, 1)

\* The replica sets the deployment owns when the pods are listed, each with
\* its resource version and whether one of its pods has a condition with
\* reason Unschedulable.
ReplicaSets == [resource_version : ResourceVersions, unschedulable : {"True", "False"}]
ReplicaSetLists ==
    {rs \in SUBSET ReplicaSets :
        /\ Cardinality(rs) <= 2
        /\ \A r, o \in rs : r.resource_version = o.resource_version => r = o}

\* Deployment.get_latest_pods: the pods of the replica set that
\* sorted(rs_list, key=resource_version, reverse=True) puts first.
get_latest_pods(rs_list) ==
    IF rs_list = {} THEN "no_replicaset"
    ELSE LET latest_rs == CHOOSE r \in rs_list :
                 \A o \in rs_list \ {r} : StrLess(o.resource_version, r.resource_version)
         IN IF latest_rs.unschedulable = "True" THEN "unschedulable" ELSE "schedulable"

\* The statuses a MODIFIED event can carry: conditions of distinct types,
\* unavailable_replicas unset or positive (the API server omits a zero), and
\* replica counts that all match or miss at one end.
EventConditions ==
    {c \in Conditions : c.type = "ReplicaFailure" => c.status = "True"}
EventConditionLists ==
    {cs \in SeqsUpTo(EventConditions, MaxEventConds) :
        \A j, k \in 1..Len(cs) : cs[j].type = cs[k].type => j = k}
EventCounts(desired_replicas) ==
    {[k \in 1..4 |-> desired_replicas]}
        \cup {[k \in 1..4 |-> IF k = j THEN None ELSE desired_replicas] : j \in {1, 4}}
NoEvent ==
    [type |-> "none", conditions |-> <<>>, pods |-> "not_listed",
     observed_generation |-> 0, unavailable_replicas |-> None,
     counts |-> [k \in 1..4 |-> None]]
ErrorEvent == [NoEvent EXCEPT !.type = "ERROR"]
RolloutEvents(desired_replicas) ==
    {ErrorEvent} \cup
    [type : {"MODIFIED"},
     conditions : EventConditionLists,
     pods : {"not_listed"},
     observed_generation : {0, 1},
     unavailable_replicas : {None, 1},
     counts : EventCounts(desired_replicas)]

InitRollout ==
    /\ ConfigAtRest
    /\ ApplyAtRest
    /\ rd = Idle /\ cy = Idle /\ sc = Idle /\ cr = Idle /\ wt = Idle /\ pf = Idle
    /\ \E desired \in Values :
          ro = [pc |-> "scope",
                resource_version |-> LastShortVersion,
                observed_generation |-> 0,
                desired_replicas |-> desired,
                after |-> LastShortVersion,
                body |-> "pending", watched |-> FALSE, seen |-> 0,
                last |-> NoEvent, replica_sets |-> {}, err |-> NoErr]

\* `if self.resource_version == resource_version: return`
UnchangedNever(resource_version, baseline) == FALSE
Unchanged(resource_version, baseline) == resource_version = baseline

\* The body of the scope runs (the patch) and control returns to rollout():
\* an exception of the body leaves the scope; an unchanged resource version
\* returns; otherwise the watch is opened.
RolloutBody ==
    /\ ro.pc = "scope"
    /\ \/ ro' = [ro EXCEPT !.pc = "raised", !.body = "raised",
                           !.err = Err("ApiException", "500", 0)]
       \/ \E version \in {ro.resource_version, RolledVersion} :
             ro' = [ro EXCEPT !.body = "done", !.after = version,
                              !.pc = IF Unchanged(version, ro.resource_version)
                                     THEN "returned" ELSE "watching",
                              !.watched = ~Unchanged(version, ro.resource_version)]
    /\ UNCHANGED <<configVars, applyVars, rd, cy, sc, cr, wt, pf>>

\* The stream yields an event: the ERROR test and _check_conditions.
WatchEvent ==
    /\ ro.pc = "watching"
    /\ ro.seen < MaxWatchEvents
    /\ \E e \in RolloutEvents(ro.desired_replicas) :
          LET seen == [ro EXCEPT !.seen = @ + 1, !.last = e, !.replica_sets = {}]
          IN ro' = IF e.type = "ERROR"
                   THEN [seen EXCEPT !.pc = "raised",
                           !.err = ObserveEvent(e, ro.observed_generation,
                                                ro.desired_replicas).err]
                   ELSE IF _check_conditions(e.conditions) # NoErr
                   THEN [seen EXCEPT !.pc = "raised", !.err = _check_conditions(e.conditions)]
                   ELSE [seen EXCEPT !.pc = "pods"]
    /\ UNCHANGED <<configVars, applyVars, rd, cy, sc, cr, wt, pf>>

\* `await self._check_pod_conditions()` and the rest of the loop body.
WatchPods ==
    /\ ro.pc = "pods"
    /\ \E rs_list \in ReplicaSetLists :
          LET e == [ro.last EXCEPT !.pods = get_latest_pods(rs_list)]
              o == ObserveEvent(e, ro.observed_generation, ro.desired_replicas)
          IN ro' = [ro EXCEPT !.last = e, !.replica_sets = rs_list, !.err = o.err,
                              !.pc = IF o.kind = "raise" THEN "raised"
                                     ELSE IF o.kind = "success" THEN "returned"
                                     ELSE "watching"]
    /\ UNCHANGED <<configVars, applyVars, rd, cy, sc, cr, wt, pf>>

\* The stream ends after timeout_seconds: the fall-through raise.
WatchEnds ==
    /\ ro.pc = "watching"
    /\ ro' = [ro EXCEPT !.pc = "raised",
                        !.err = Err("AdjustmentRejectedError", ReasonTimedOutDeployment, 0)]
    /\ UNCHANGED <<configVars, applyVars, rd, cy, sc, cr, wt, pf>>

NextRollout ==
    \/ RolloutBody
    \/ WatchEvent
    \/ WatchPods
    \/ WatchEnds

SpecRollout == InitRollout /\ [][NextRollout]_vars

\* C26: when the resource_version after the body of the scope equals the one
\* captured before the yield, rollout returns success without opening a watch
\* and without looking at any condition or pod.
C26_NoChangeNoWatch ==
    (ro.body = "done" /\ ro.after = ro.resource_version)
        => /\ ro.pc = "returned"
           /\ ~ro.watched
           /\ ro.seen = 0
           /\ ro.last = NoEvent
           /\ ro.replica_sets = {}

C26_Witness ==
    ro.pc = "returned" /\ ro.body = "done" /\ ro.after = ro.resource_version

\* An event the replica-count test of rollout accepts.
Accepted(e) ==
    /\ e.type = "MODIFIED"
    /\ e.observed_generation # ro.observed_generation
    /\ e.unavailable_replicas = None
    /\ \A k \in 1..4 : e.counts[k] = ro.desired_replicas

Handled ==
    /\ ro.pc \in {"watching", "returned", "raised"}
    /\ ro.last.type = "MODIFIED"

HasCondition(e, type, statuses) ==
    \E k \in 1..Len(e.conditions) :
        e.conditions[k].type = type /\ e.conditions[k].status \in statuses

\* C28: every watch event whose conditions contain one of type ReplicaFailure,
\* whatever precedes it in the list, makes rollout fail with
\* AdjustmentRejectedError.
C28_ReplicaFailureRejects ==
    (Handled /\ HasCondition(ro.last, "ReplicaFailure", {"True", "False", "Unknown"}))
        => (ro.pc = "raised" /\ ro.err.cls = "AdjustmentRejectedError")

\* C29: every watch event whose conditions contain Progressing with status
\* False, whatever precedes it, makes rollout fail with AdjustmentRejectedError
\* reason ProgressionFailure; an event with only Progressing True/Unknown and
\* Available False/Unknown conditions is never failed by the condition check.
C29_ProgressingFalseRejects ==
    /\ (Handled /\ HasCondition(ro.last, "Progressing", {"False"}))
          => (ro.pc = "raised"
              /\ ro.err = Err("AdjustmentRejectedError", "ProgressionFailure", 0))
    /\ (Handled /\ \A k \in 1..Len(ro.last.conditions) :
                       \/ /\ ro.last.conditions[k].type = "Progressing"
                          /\ ro.last.conditions[k].status \in {"True", "Unknown"}
                       \/ /\ ro.last.conditions[k].type = "Available"
                          /\ ro.last.conditions[k].status \in {"False", "Unknown"})
          => ro.last.pods # "not_listed"

\* The replica set with the highest resource version.
Newest(rs_list) ==
    CHOOSE r \in rs_list :
        \A o \in rs_list : IntParse(o.resource_version) <= IntParse(r.resource_version)

\* C30: on every watch event that passes the condition checks, stale ones
\* included, an Unschedulable pod of the controller's newest replica set makes
\* rollout fail with AdjustmentRejectedError reason scheduling-failed, so such
\* an event is never accepted as success and never leaves the watch open.
C30_UnschedulableNewestRejects ==
    (/\ Handled
     /\ ro.last.pods # "not_listed"
     /\ ro.replica_sets # {}
     /\ Newest(ro.replica_sets).unschedulable = "True")
        => (ro.pc = "raised"
            /\ ro.err = Err("AdjustmentRejectedError", "scheduling-failed", 0))

(***************************************************************************)
(* Rollout.rollout on its own: after the body of the scope, the loop that  *)
(* sleeps 15 s, lists the Argo Rollout and decides from its status.        *)
(***************************************************************************)
MaxRolloutPolls == 2

NoPoll ==
    [conditions |-> <<>>, active_selector |-> "", preview_selector |-> "",
     timed_out |-> FALSE]

InitPoll ==
    /\ ConfigAtRest
    /\ ApplyAtRest
    /\ rd = Idle /\ cy = Idle /\ sc = Idle /\ cr = Idle /\ wt = Idle /\ pf = Idle
    /\ ro = [pc |-> "scope", polls |-> 0, last |-> NoPoll, err |-> NoErr]

\* The body of the scope returns and the loop is entered.
PollBegin ==
    /\ ro.pc = "scope"
    /\ ro' = [ro EXCEPT !.pc = "polling"]
    /\ UNCHANGED <<configVars, applyVars, rd, cy, sc, cr, wt, pf>>

\* One round of `while True`: sleep, list, decide, test the timeout.
RolloutPoll ==
    /\ ro.pc = "polling"
    /\ ro.polls < MaxRolloutPolls
    /\ \E p \in RolloutPolls :
          LET o == ObservePoll(p) IN
          ro' = [ro EXCEPT !.polls = @ + 1, !.last = p, !.err = o.err,
                           !.pc = IF o.kind = "raise" THEN "raised"
                                  ELSE IF o.kind = "success" THEN "returned"
                                  ELSE "polling"]
    /\ UNCHANGED <<configVars, applyVars, rd, cy, sc, cr, wt, pf>>

NextPoll ==
    \/ PollBegin
    \/ RolloutPoll

SpecPoll == InitPoll /\ [][NextPoll]_vars

\* The condition with the greatest last_update_time, when there is one.
HasNewestCondition(conds) ==
    \E k \in 1..Len(conds) :
        \A j \in 1..Len(conds) : j # k => conds[j].last_update_time < conds[k].last_update_time
NewestCondition(conds) ==
    conds[CHOOSE k \in 1..Len(conds) :
        \A j \in 1..Len(conds) : j # k => conds[j].last_update_time < conds[k].last_update_time]

\* C31: each poll of Rollout.rollout decides from the newest condition: a type
\* outside {Available, Progressing} fails with AdjustmentRejectedError, reason
\* scheduling-failed when the message contains "exceeded quota" and the
\* condition type otherwise; an Available or Progressing condition succeeds
\* iff the active selector equals the preview selector and else polls again.
C31_NewestConditionDecides ==
    (ro.polls >= 1 /\ HasNewestCondition(ro.last.conditions)) =>
        LET latest == NewestCondition(ro.last.conditions) IN
        IF latest.type \notin {"Available", "Progressing"}
        THEN /\ ro.pc = "raised"
             /\ ro.err = Err("AdjustmentRejectedError",
                             IF latest.exceeded_quota THEN "scheduling-failed"
                             ELSE latest.type, 0)
        ELSE IF ro.last.active_selector = ro.last.preview_selector
        THEN ro.pc = "returned"
        ELSE ro.pc = "polling" \/ (ro.pc = "raised" /\ ro.last.timed_out)

(***************************************************************************)
(* The restart test of DeploymentOptimization.apply over the life of the   *)
(* controller's pods: the restarts each pod has when the adjustment        *)
(* starts, the patch (a no-op keeps the pods, a change rolls out new ones  *)
(* that start at zero), restarts while the change rolls out, and the test. *)
(***************************************************************************)
MaxPriorRestarts == 2
MaxNewRestarts == 1

InitRestarts ==
    /\ ConfigAtRest
    /\ ApplyAtRest
    /\ rd = Idle /\ cy = Idle /\ sc = Idle /\ cr = Idle /\ wt = Idle /\ pf = Idle
    /\ \E pods \in SeqsUpTo(0..MaxPriorRestarts, MaxPods) :
          /\ pods # <<>>
          /\ ro = [pc |-> "start", pods |-> pods, before |-> pods, changed |-> FALSE,
                   during |-> 0, count |-> None, err |-> NoErr]

\* rollout() around deployment.patch(), to the point where the observer returns.
RestartsPatch ==
    /\ ro.pc = "start"
    /\ \E changed \in BOOLEAN :
          ro' = [ro EXCEPT !.pc = "rolled_out", !.changed = changed,
                           !.pods = IF changed THEN [k \in DOMAIN ro.pods |-> 0] ELSE @]
    /\ UNCHANGED <<configVars, applyVars, rd, cy, sc, cr, wt, pf>>

\* A container of one of the pods restarts after the adjustment has started.
ContainerRestarts ==
    /\ ro.pc = "rolled_out"
    /\ ro.during < MaxNewRestarts
    /\ \E k \in DOMAIN ro.pods :
          ro' = [ro EXCEPT !.pods[k] = @ + 1, !.during = @ + 1]
    /\ UNCHANGED <<configVars, applyVars, rd, cy, sc, cr, wt, pf>>

\* `if await self.deployment.get_restart_count() > 0: raise ...("unstable")`
RestartsCheck ==
    /\ ro.pc = "rolled_out"
    /\ LET o == get_restart_count(ro.pods)
           verdict == RestartVerdict(o.count, 0)
       IN ro' = [ro EXCEPT !.count = o.count, !.err = verdict,
                           !.pc = IF verdict = NoErr THEN "returned" ELSE "raised"]
    /\ UNCHANGED <<configVars, applyVars, rd, cy, sc, cr, wt, pf>>

NextRestarts ==
    \/ RestartsPatch
    \/ ContainerRestarts
    \/ RestartsCheck

SpecRestarts == InitRestarts /\ [][NextRestarts]_vars

\* C32: the direct apply rejects the adjustment as unstable only for restarts
\* that happened after the adjustment started; restarts the pods already had,
\* also when the patch changes nothing, never cause the rejection.
C32_OnlyNewRestartsCount ==
    (ro.pc = "raised" /\ ro.err.reason = "unstable") => ro.during > 0

\* C33: CanaryOptimization.apply deletes the canary pod and waits until it is
\* gone before it issues the create, creates the pod with the resource values
\* adjust recorded, and then waits for readiness: the create is never pending
\* while the previous pod exists, and an apply that ends without error leaves
\* the one canary pod of that name with the recorded values.
C33_CanaryApplyOrder ==
    \A i \in Opts : (strategy[i] = "canary" /\ pc = "applying") =>
        /\ apc[i] = "c_create" => ~pod[i].exists
        /\ apc[i] \in {"c_wait", "c_refresh"} => (pod[i].exists /\ pod[i].res = can[i])
        /\ (apc[i] = "end" /\ results[i] = NoErr) => (pod[i].exists /\ pod[i].res = can[i])

C33_Witness ==
    \E i \in Opts :
        /\ strategy[i] = "canary" /\ pc = "applying"
        /\ apc[i] = "end" /\ results[i] = NoErr
        /\ pod[i].exists /\ pod[i].res = can[i] /\ can[i] # TemplateSpec.res

\* C34: an ApiException raised by the check leaves wait_for_condition at once
\* when fail_on_api_error is true; when it is false the check counts as not
\* met and the loop goes on (to the sleep, the next pass, or the timeout); an
\* exception of any other class leaves it in both modes.
C34_FailOnApiError ==
    (wt.pc # "idle" /\ wt.checks >= 1 /\ wt.last.answer.err # NoErr) =>
        LET e == wt.last.answer.err IN
        IF e.cls = "ApiException" /\ ~wt.fail_on_api_error
        THEN \/ wt.pc \in {"sleep", "top"}
             \/ wt.pc = "raised" /\ wt.err.cls = "TimeoutError"
        ELSE wt.pc = "raised" /\ wt.err = e

C34_Witness ==
    /\ ~wt.fail_on_api_error /\ wt.checks >= 2
    /\ wt.last.answer.err.cls = "ApiException"
    /\ wt.pc = "raised" /\ wt.err.cls = "TimeoutError"

\* C35: adjust() changes only the local wrapper: while the adjustments are
\* being distributed, and when one of them raises, the cluster is as it was
\* and no apply() has started; once the gather has started, apply() has been
\* started on every optimization, also on one that received no adjustment.
C35_AdjustThenApplyAll ==
    /\ (pc = "adjusting" \/ (pc = "raised" /\ hphase = "none")) =>
          /\ \A i \in Opts : apc[i] = "idle" /\ results[i] = Pending
          /\ ctrl = [i \in Opts |-> [exists |-> TRUE, spec |-> TemplateSpec]]
          /\ ctrlOps = [i \in Opts |-> {}]
          /\ pod = [i \in Opts |-> [exists |-> strategy[i] = "canary", res |-> TemplateSpec.res]]
    /\ pc = "applying" => \A i \in Opts : apc[i] # "idle"

C35_Witness ==
    /\ pc = "applying" /\ nAdj = MaxAdjustments /\ ignoredAdj = 0
    /\ \E i, j \in Opts :
          /\ loc[i] # TemplateSpec
          /\ loc[j] = TemplateSpec /\ can[j] = TemplateSpec.res
          /\ apc[j] \notin {"idle", "end", FirstStep(j)}

\* C36: when the apply() of exactly one optimization fails, the recovery that
\* on_failure selects is performed on that optimization, and an optimization
\* whose apply() succeeded is never rolled back or destroyed for it.
C36_RecoveryOnFailedOnly ==
    \A i, j \in Opts :
        (/\ i # j
         /\ hphase = "results"
         /\ IsException(results[i])
         /\ results[j] = NoErr) =>
            /\ strategy[j] = "default" =>
                  (ctrlOps[j] \cap {"rollback", "delete"} = {} /\ ctrl[j].exists)
            /\ strategy[j] = "canary" => (pod[j].exists /\ pod[j].res = can[j])
            /\ (pc \in {"raised", "done"} /\ on_failure \in {"rollback", "destroy"}) =>
                  \E k \in 1..Len(heCalls) : heCalls[k].j = i

\* C37: whenever apply() has returned, so that KubernetesConnector.adjust goes
\* on to return a description, the cpu and memory the description reports for
\* each canary component are the resource requirements of the canary pod in
\* the cluster, also after a failed canary apply that was recovered by
\* deleting the pod and creating it again at baseline.
C37_DescriptionMatchesCanaryPod ==
    pc = "done" =>
        \A i \in Opts : (strategy[i] = "canary" /\ pod[i].exists) =>
            /\ CanaryComponents(i)[2].cpu.value = pod[i].res["cpu"]
            /\ CanaryComponents(i)[2].memory.value = pod[i].res["memory"]

Without(list, k) == SubSeq(list, 1, k - 1) \o SubSeq(list, k + 1, Len(list))

\* C38: inject_sidecar is attempted at most three times; when it returns, the
\* controller in the cluster has the containers it had before the call plus
\* exactly one opsani-envoy container, at `index` when given (at the end when
\* the list is shorter) and at the end otherwise, however many attempts failed.
C38_SidecarInjectedOnce ==
    sc.pc # "idle" =>
        /\ sc.tries <= MaxTries /\ sc.patchCalls <= MaxTries
        /\ sc.pc = "returned" =>
              LET at == IF sc.index = None \/ sc.index > Len(sc.before)
                        THEN Len(sc.before) + 1 ELSE sc.index + 1
              IN /\ Len(sc.cluster) = Len(sc.before) + 1
                 /\ sc.cluster[at].name = "opsani-envoy"
                 /\ Without(sc.cluster, at) = sc.before
                 /\ Cardinality({k \in 1..Len(sc.cluster) :
                                    sc.cluster[k].name = "opsani-envoy"}) = 1
        /\ sc.pc # "returned" => sc.cluster = sc.before

C38_Witness ==
    /\ sc.pc = "returned" /\ sc.tries = MaxTries /\ sc.patchCalls = MaxTries
    /\ sc.index = 0 /\ Len(sc.before) = 2

(***************************************************************************)
(* delete_canary_pod(raise_if_not_found, timeout) of ControllerModel and   *)
(* of Deployment (the same body): read the canary pod, delete it, wait     *)
(* until it is deleted; an ApiException of any of the three goes through   *)
(* the except clause.                                                      *)
(***************************************************************************)
ServerError == [status |-> 500, reason |-> "Internal Server Error"]

InitDeleteCanary ==
    /\ ConfigAtRest
    /\ ApplyAtRest
    /\ rd = Idle /\ cy = Idle /\ sc = Idle /\ cr = Idle /\ wt = Idle /\ ro = Idle
    /\ \E kind \in {"Deployment", "Rollout"}, flag \in BOOLEAN, exists \in BOOLEAN,
          timeout \in 0..MaxTimeout :
          pf = [pc |-> "start", kind |-> kind, raise_if_not_found |-> flag,
                timeout |-> timeout, exists |-> exists, read |-> Found,
                caught |-> Found, deleteCalls |-> 0, waited |-> FALSE,
                result |-> "none", err |-> NoErr]

\* `if e.status != 404 or e.reason != "Not Found" and raise_if_not_found: raise`
Reraises(e, raise_if_not_found) ==
    e.status # 404 \/ (e.reason # "Not Found" /\ raise_if_not_found)

\* The except clause on ApiException e: raise, or fall through to `return None`.
Caught(e) ==
    IF Reraises(e, pf.raise_if_not_found)
    THEN [pf EXCEPT !.caught = e, !.pc = "raised",
                    !.err = Err("ApiException", e.reason, e.status)]
    ELSE [pf EXCEPT !.caught = e, !.pc = "returned", !.result = "None"]

\* `canary = await self.get_canary_pod()`
DeleteCanaryRead ==
    /\ pf.pc = "start"
    /\ \E r \in ReadOutcomes(pf.exists) :
          pf' = IF r = Found THEN [pf EXCEPT !.read = r, !.pc = "delete"]
                ELSE [Caught(r) EXCEPT !.read = r]
    /\ UNCHANGED <<configVars, applyVars, rd, cy, sc, cr, wt, ro>>

\* `await canary.delete()`
DeleteCanaryIssue ==
    /\ pf.pc = "delete"
    /\ \/ pf' = [pf EXCEPT !.deleteCalls = @ + 1, !.pc = "wait"]
       \/ pf' = [Caught(ServerError) EXCEPT !.deleteCalls = pf.deleteCalls + 1]
    /\ UNCHANGED <<configVars, applyVars, rd, cy, sc, cr, wt, ro>>

\* `await canary.wait_until_deleted(timeout=timeout)`: returns once the pod is
\* seen gone, or raises TimeoutError, or the ApiException of a refresh.
DeleteCanaryWait ==
    /\ pf.pc = "wait"
    /\ \/ /\ pf.timeout > 0
          /\ pf' = [pf EXCEPT !.exists = FALSE, !.waited = TRUE, !.pc = "returned",
                              !.result = "canary"]
       \/ pf' = [pf EXCEPT !.pc = "raised", !.err = Err("TimeoutError", "timed out", 0)]
       \/ /\ pf.timeout > 0
          /\ pf' = Caught(ServerError)
    /\ UNCHANGED <<configVars, applyVars, rd, cy, sc, cr, wt, ro>>

NextDeleteCanary ==
    \/ DeleteCanaryRead
    \/ DeleteCanaryIssue
    \/ DeleteCanaryWait

SpecDeleteCanary == InitDeleteCanary /\ [][NextDeleteCanary]_vars

\* C39: when the read of the canary pod fails with 404 Not Found,
\* delete_canary_pod raises that error if raise_if_not_found is true and
\* returns None if it is false; any other API error is raised whatever the
\* flag; a pod that exists is deleted and the call returns it only after the
\* pod has been observed deleted.
C39_DeleteCanaryPod ==
    pf.pc \in {"returned", "raised"} =>
        /\ (pf.read = NotFound /\ pf.raise_if_not_found) =>
              (pf.pc = "raised" /\ pf.err = Err("ApiException", "Not Found", 404))
        /\ (pf.read = NotFound /\ ~pf.raise_if_not_found) =>
              (pf.pc = "returned" /\ pf.result = "None")
        /\ pf.caught \notin {Found, NotFound} =>
              (pf.pc = "raised" /\ pf.err = Err("ApiException", pf.caught.reason, pf.caught.status))
        /\ (pf.pc = "returned" /\ pf.read = Found) =>
              (pf.result = "canary" /\ pf.deleteCalls = 1 /\ pf.waited /\ ~pf.exists)

(***************************************************************************)
(* KubernetesChecks.check_deployments_are_ready: the multicheck runs       *)
(* check_deployment on every entry of config.deployments; an item passes   *)
(* when the handler returns and fails when it raises.                      *)
(***************************************************************************)
InitReadyCheck ==
    /\ ConfigAtRest
    /\ ApplyAtRest
    /\ rd = Idle /\ cy = Idle /\ sc = Idle /\ cr = Idle /\ wt = Idle /\ ro = Idle
    /\ \E deployments \in SeqsUpTo(ControllerStatuses, MaxEntries) :
          /\ deployments # <<>>
          /\ pf = [pc |-> "checking", deployments |-> deployments, results |-> <<>>]

\* `deployment.is_ready`, neither called nor awaited: the bound method.
is_ready_attribute(status) == "bound method"

\* bool(x) of what the handler tests.
TruthyObject(x) == x \notin {"False", "None"}

\* check_deployment(dep_config) on the Deployment that was read.
check_deployment(status) ==
    IF ~TruthyObject(is_ready_attribute(status))
    THEN Raises(Err("RuntimeError", "is not ready", 0))
    ELSE Returns("None")

\* The next item of the multicheck: Deployment.read, then the handler.
CheckDeployment ==
    /\ pf.pc = "checking"
    /\ LET k == Len(pf.results) + 1 IN
       \E read \in ReadOutcomes(TRUE) :
          LET answer == IF read = Found THEN check_deployment(pf.deployments[k])
                        ELSE Raises(Err("ApiException", read.reason, 0))
              result == [read |-> read, success |-> answer.err = NoErr, err |-> answer.err]
          IN pf' = [pf EXCEPT !.results = Append(@, result),
                              !.pc = IF k = Len(pf.deployments) THEN "done" ELSE "checking"]
    /\ UNCHANGED <<configVars, applyVars, rd, cy, sc, cr, wt, ro>>

NextReadyCheck == CheckDeployment

SpecReadyCheck == InitReadyCheck /\ [][NextReadyCheck]_vars

\* C40: the check `Deployment "<name>" is ready` fails for every configured
\* Deployment that is not ready (status.replicas differs from
\* status.ready_replicas, or there is no status) and passes only for
\* Deployments that are ready.
C40_ReadyCheckFailsUnready ==
    \A k \in 1..Len(pf.results) :
        pf.results[k].success <=>
            (pf.results[k].read = Found /\ ControllerIsReady(pf.deployments[k]) = "True")

====
